---------------------------- MODULE Spec2Model ----------------------------
(***************************************************************************)
(* Model of the experiment orchestrator of pulse-optimization: argument    *)
(* expansion (construct_args), record naming (construct_filename), the     *)
(* per-task function (simulation), the two dispatch modes, per-task        *)
(* persistence (save_result_as_json) and aggregation (create_table).       *)
(*                                                                         *)
(* Python strings are sequences of one-character strings, so that          *)
(* formatting and concatenation are computed and can be inspected.         *)
(* Python values are records [t, n, s, l]: t the type, n the number,       *)
(* s the text, l the items of a list.                                      *)
(***************************************************************************)
EXTENDS Integers, Sequences, FiniteSets, TLC

VARIABLES
    pc,             \* position of the caller / orchestrator (main)
    static_args,    \* construct_args: dict of static arguments
    variable_args,  \* construct_args: ordered dict key -> options
    args,           \* construct_args: outcome (list of dicts or an error)
    fn_in,          \* construct_filename: (loss, variable_args, loss_args, filetype)
    filename,       \* construct_filename: names returned, one per loss_arg
    raw,            \* results/integrals/{name}/raw: filename -> record written
    results,        \* the orchestrator's list of results
    mode,           \* "mp": run_with_multiprocessing, "seq": run_without_multiprocessing
    config,         \* the configuration loaded by main
    items,          \* the loss_arg of every task, in the order of items
    fate,           \* what the optimizer does in each task
    task,           \* per task: "pending", "returned" or "raised"
    ret,            \* per task: the dict simulation returned
    chunk,          \* per chunk of the pool: status and next task
    done_order,     \* the tasks in the order in which they completed
    got,            \* the list result.get() handed to the orchestrator
    table,          \* the rows of the data frame built by create_table
    family,         \* the class that is instantiated: a factory or Basis itself
    fargs,          \* the arguments of the constructor call
    factory,        \* the outcome of the constructor call
    coefficients,   \* the coefficient vector handed to sample
    pulse,          \* the outcome of sample(coefficients)
    defaults,       \* the outcome of basis.default_coefficients
    param,          \* the parametrization of coefficients at 0 and at 1
    constr,         \* basis.constraints, each residual evaluated at coefficients
    largs,          \* the arguments of the Loss constructor call
    integral,       \* what the external integrator returns for each integrand
    lossObj,        \* the outcome of the Loss constructor call
    integrations,   \* the integrands integrated by the latest loss evaluation
    loss_value,     \* the outcome of loss(coefficients)
    relative,       \* the outcome of loss.relative_loss(coefficients)
    pulse_class,    \* PowerPulse or ReluPowerPulse
    pulse_args,     \* the arguments of the constructor of the pulse class
    power_pulse,    \* the outcome of the constructor of the pulse class
    random,         \* basis.random_coefficients: the latest draw and the outcome
    special,        \* the outcome of basis.special_coefficients
    opt_args,       \* the optimizer and the arguments simulation calls it with
    minimize_call,  \* the arguments handed to scipy.optimize.minimize
    opt_res,        \* the outcome of the optimizer call
    clock,          \* time.time(): the wall clock, in seconds
    gate_pool,      \* per pool worker: its pid, its chunk, its next task
    taken,          \* the chunks of the gate experiments handed to a worker
    seed,           \* per gate experiment: the seed it set, -1 before
    data_frame,     \* the cells of a table of results (one column)
    serialized,     \* serialize_table(table)
    deserialized,   \* deserialize_table(serialized)
    json_text,      \* json.dumps(cell, cls=CustomEncoder), cell by cell
    decoded         \* json.loads(json_text), cell by cell

argVars   == <<static_args, variable_args, args>>
fileVars  == <<fn_in, filename>>
batchVars == <<mode, config, items, fate, task, ret, chunk, done_order, got, table>>

pulseVars == <<family, fargs, factory, coefficients, pulse, defaults, param, constr>>

lossVars == <<largs, integral, lossObj, integrations, loss_value, relative>>

legacyVars == <<pulse_class, pulse_args, power_pulse>>

coeffVars == <<random, special>>

optVars == <<opt_args, minimize_call, opt_res>>

seedVars == <<clock, gate_pool, taken, seed>>

tableVars == <<data_frame, serialized, deserialized, json_text, decoded>>

moreVars == <<lossVars, legacyVars, coeffVars, optVars, seedVars, tableVars>>

vars == <<pc, argVars, fileVars, raw, results, batchVars, pulseVars, moreVars>>

\* Value of a variable that a specification does not use.
Unused == "unused"

BatchUnused ==
    /\ mode = Unused
    /\ config = Unused
    /\ items = Unused
    /\ fate = Unused
    /\ task = Unused
    /\ ret = Unused
    /\ chunk = Unused
    /\ done_order = Unused
    /\ got = Unused
    /\ table = Unused

PulseUnused ==
    /\ family = Unused
    /\ fargs = Unused
    /\ factory = Unused
    /\ coefficients = Unused
    /\ pulse = Unused
    /\ defaults = Unused
    /\ param = Unused
    /\ constr = Unused

LossUnused ==
    /\ largs = Unused
    /\ integral = Unused
    /\ lossObj = Unused
    /\ integrations = Unused
    /\ loss_value = Unused
    /\ relative = Unused

LegacyUnused ==
    /\ pulse_class = Unused
    /\ pulse_args = Unused
    /\ power_pulse = Unused

CoeffUnused ==
    /\ random = Unused
    /\ special = Unused

OptUnused ==
    /\ opt_args = Unused
    /\ minimize_call = Unused
    /\ opt_res = Unused

SeedUnused ==
    /\ clock = Unused
    /\ gate_pool = Unused
    /\ taken = Unused
    /\ seed = Unused

TableUnused ==
    /\ data_frame = Unused
    /\ serialized = Unused
    /\ deserialized = Unused
    /\ json_text = Unused
    /\ decoded = Unused

MoreUnused ==
    /\ LossUnused
    /\ LegacyUnused
    /\ CoeffUnused
    /\ OptUnused
    /\ SeedUnused
    /\ TableUnused

-----------------------------------------------------------------------------
(* Bounds of the model *)

\* Largest n a factory is constructed with.
MaxN == 3

\* Longest coefficient vector handed to sample.
MaxCoeffLen == 3

\* Most functions of a basis given by the values of its functions.
MaxTab == 2

\* Most cells of a table that is serialized.
MaxCells == 1

\* Most elements of a list or an array in a cell.
MaxArrayLen == 2

\* Most gate experiments of a batch (runs).
MaxRuns == 3

\* Most seconds that pass during a batch of gate experiments.
MaxTicks == 4

\* Largest n of the factory of a loss that is minimized.
MaxOptN == 1

\* Largest n of a factory whose basis draws random coefficients.
MaxRandN == 2

\* Largest n of the factory of a loss.
MaxLossN == 1

\* Largest number of variable arguments of a configuration.
MaxVarKeys == 2
\* Largest number of options of one variable argument.
MaxOptions == 2

-----------------------------------------------------------------------------
(* Python values *)

PyInt(i)   == [t |-> "int",   n |-> i, s |-> <<>>, l |-> <<>>]
PyFloat(i) == [t |-> "float", n |-> i, s |-> <<>>, l |-> <<>>]  \* i tenths
PyStr(str) == [t |-> "str",   n |-> 0, s |-> str,  l |-> <<>>]
PyBool(b)  == [t |-> "bool",  n |-> IF b THEN 1 ELSE 0, s |-> <<>>, l |-> <<>>]
PyList(xs) == [t |-> "list",  n |-> 0, s |-> <<>>, l |-> xs]
PyNone     == [t |-> "None",  n |-> 0, s |-> <<>>, l |-> <<>>]
\* A dict is a function from keys (strings) to values, carried in l.
PyDict(d)  == [t |-> "dict",  n |-> 0, s |-> <<>>, l |-> d]

\* An exception raised instead of a value returned.
Raised(exc) == [raised |-> TRUE, exc |-> exc, value |-> <<>>]
Returned(v) == [raised |-> FALSE, exc |-> "", value |-> v]

Digit(d) ==
    CASE d = 0 -> "0" [] d = 1 -> "1" [] d = 2 -> "2" [] d = 3 -> "3"
      [] d = 4 -> "4" [] d = 5 -> "5" [] d = 6 -> "6" [] d = 7 -> "7"
      [] d = 8 -> "8" [] d = 9 -> "9"

RECURSIVE NatStr(_)
NatStr(i) == IF i < 10 THEN <<Digit(i)>> ELSE NatStr(i \div 10) \o <<Digit(i % 10)>>

IntStr(i) == IF i < 0 THEN <<"-">> \o NatStr(-i) ELSE NatStr(i)

\* str(v) as the f-string of construct_filename applies it.
Str(v) ==
    CASE v.t = "int"   -> IntStr(v.n)
      [] v.t = "float" -> (IF v.n < 0 THEN <<"-">> ELSE <<>>)
                          \o NatStr((IF v.n < 0 THEN -v.n ELSE v.n) \div 10)
                          \o <<".">>
                          \o <<Digit((IF v.n < 0 THEN -v.n ELSE v.n) % 10)>>
      [] v.t = "str"   -> v.s
      [] v.t = "bool"  -> IF v.n = 1 THEN <<"T", "r", "u", "e">>
                          ELSE <<"F", "a", "l", "s", "e">>
      [] v.t = "None"  -> <<"N", "o", "n", "e">>

\* iter(v): the items Python iterates over, or TypeError for a non-iterable.
Iter(v) ==
    CASE v.t = "list" -> Returned(v.l)
      [] v.t = "str"  -> Returned([i \in 1..Len(v.s) |-> PyStr(<<v.s[i]>>)])
      [] OTHER        -> Raised("TypeError")


-----------------------------------------------------------------------------
(* construct_args: pulse_opt/configuration/argument_constructor.py *)

\* A first-pool-fastest product: the order a transposed loop nest would give.
product_FirstFastest(pools, k) ==
    LET RECURSIVE rev(_)
        rev(j) ==
            IF j = 0 THEN << <<>> >>
            ELSE LET result == rev(j - 1)
                     pool == pools[k - j + 1]
                 IN [i \in 1..(Len(result) * Len(pool)) |->
                        <<pool[((i - 1) % Len(pool)) + 1]>>
                        \o result[((i - 1) \div Len(pool)) + 1]]
    IN rev(k)

\* itertools.product(*pools) over the first k pools: result = [[]], then for
\* each pool result = [x + [y] for x in result for y in pool].
RECURSIVE product(_, _)
product(pools, k) ==
    IF k = 0 THEN << <<>> >>
    ELSE LET result == product(pools, k - 1)
             pool == pools[k]
         IN [i \in 1..(Len(result) * Len(pool)) |->
                Append(result[((i - 1) \div Len(pool)) + 1],
                       pool[((i - 1) % Len(pool)) + 1])]

\* construct_args(static_args, variable_args). variable_args is the ordered
\* dict as a sequence of [key, options]; the outcome is the list of dicts
\* returned, or the TypeError itertools.product raises on a non-iterable.
construct_args(sa, va) ==
    LET arguments == [i \in 1..Len(va) |-> va[i].key]
        options   == [i \in 1..Len(va) |-> va[i].options]
        pools     == [i \in 1..Len(va) |-> Iter(options[i])]
    IN IF \E i \in 1..Len(va) : pools[i].raised
       THEN Raised("TypeError")
       ELSE LET arg_combinations ==
                    product([i \in 1..Len(va) |-> pools[i].value], Len(va))
                argkeys == {arguments[i] : i \in 1..Len(va)}
            IN Returned(
                 [c \in 1..Len(arg_combinations) |->
                    [k \in (DOMAIN sa) \cup argkeys |->
                        IF k \in argkeys
                        THEN arg_combinations[c][CHOOSE i \in 1..Len(va) : arguments[i] = k]
                        ELSE sa[k]]])

-----------------------------------------------------------------------------
(* Inputs of construct_args *)

K_a     == <<"a">>
K_n     == <<"n">>
K_scale == <<"s", "c", "a", "l", "e">>
K_theta == <<"t", "h", "e", "t", "a">>

\* Orders in which a configuration may list its variable arguments; a
\* configuration with k variable arguments uses the first k of an order.
KeyOrders == { <<K_n, K_scale, K_theta>>, <<K_scale, K_theta, K_n>> }

KeyLists == {SubSeq(o, 1, len) : o \in KeyOrders, len \in 0..MaxVarKeys}

\* Static argument dicts: the empty one, and one that has a key of its own
\* and shares the key n with the variable arguments.
StaticArgSets ==
    { <<>>,
      [k \in {K_a, K_n} |-> IF k = K_a THEN PyFloat(10) ELSE PyInt(3)] }

OptionValues == {PyInt(i) : i \in 1..MaxOptions}

\* Lists of at most MaxOptions distinct options, ascending or descending.
OptionLists ==
    UNION {{q \in [1..len -> OptionValues] :
                \/ \A i, j \in 1..len : i < j => q[i].n < q[j].n
                \/ \A i, j \in 1..len : i < j => q[i].n > q[j].n} :
           len \in 0..MaxOptions}

\* What a configuration may give as the options of a variable argument: a
\* list of distinct options, or by mistake a single scalar.
OptionObjects ==
    {PyList(q) : q \in OptionLists} \cup {PyFloat(1), PyStr(<<"e", "q">>)}

VariableArgSets ==
    {[i \in 1..Len(ks) |-> [key |-> ks[i], options |-> os[i]]] :
        ks \in KeyLists, os \in [1..MaxVarKeys -> OptionObjects]}

InitArgs ==
    /\ pc = "call"
    /\ static_args \in StaticArgSets
    /\ variable_args \in VariableArgSets
    /\ args = Unused
    /\ fn_in = Unused
    /\ filename = Unused
    /\ raw = Unused
    /\ results = Unused
    /\ BatchUnused
    /\ PulseUnused
    /\ MoreUnused

ConstructArgs ==
    /\ pc = "call"
    /\ args' = construct_args(static_args, variable_args)
    /\ pc' = "returned"
    /\ UNCHANGED <<moreVars, pulseVars, static_args, variable_args, fileVars, raw,
                   results, batchVars>>

NextArgs == ConstructArgs

SpecArgs == InitArgs /\ [][NextArgs]_vars

-----------------------------------------------------------------------------
(* Claims about construct_args *)

Range(q) == {q[i] : i \in 1..Len(q)}

\* Every variable argument is a list of pairwise distinct options.
AllOptionLists ==
    \A i \in 1..Len(variable_args) :
        /\ variable_args[i].options.t = "list"
        /\ \A a, b \in 1..Len(variable_args[i].options.l) :
               a # b => variable_args[i].options.l[a] # variable_args[i].options.l[b]

RECURSIVE ProductOfLengths(_)
ProductOfLengths(k) ==
    IF k = 0 THEN 1
    ELSE ProductOfLengths(k - 1) * Len(variable_args[k].options.l)

\* Position of option v in the option list of the i-th variable argument.
OptionIndex(i, v) ==
    CHOOSE a \in 1..Len(variable_args[i].options.l) : variable_args[i].options.l[a] = v

\* Lexicographic order on the option positions of two returned dicts.
LexBefore(d, e) ==
    \E p \in 1..Len(variable_args) :
        /\ \A q \in 1..(p - 1) :
               d[variable_args[q].key] = e[variable_args[q].key]
        /\ OptionIndex(p, d[variable_args[p].key])
               < OptionIndex(p, e[variable_args[p].key])

\* Count, one option per variable key, every combination exactly once, in
\* lexicographic order with the last key fastest; the empty cases.
ExpansionIsCartesian ==
    LET out  == args.value
        keys == {variable_args[i].key : i \in 1..Len(variable_args)}
    IN /\ ~args.raised
       /\ Len(out) = ProductOfLengths(Len(variable_args))
       /\ \A c \in 1..Len(out) :
              /\ DOMAIN out[c] = (DOMAIN static_args) \cup keys
              /\ \A i \in 1..Len(variable_args) :
                     out[c][variable_args[i].key] \in Range(variable_args[i].options.l)
       /\ \A c, e \in 1..Len(out) : c # e => out[c] # out[e]
       /\ \A choice \in {f \in [1..Len(variable_args) -> OptionValues] :
                            \A i \in 1..Len(variable_args) :
                                f[i] \in Range(variable_args[i].options.l)} :
              \E c \in 1..Len(out) :
                  \A i \in 1..Len(variable_args) :
                      out[c][variable_args[i].key] = choice[i]
       /\ \A c, e \in 1..Len(out) : c < e => LexBefore(out[c], out[e])
       /\ Len(variable_args) = 0 => out = <<static_args>>
       /\ (Len(variable_args) = 0 /\ static_args = <<>>) => out = << <<>> >>

\* C4 as stated: construct_args over lists of pairwise distinct options
\* returns the Cartesian product, and every returned dict contains all the
\* static arguments (each static key with its static value).
C4_AllStaticArgsKept ==
    (pc = "returned" /\ AllOptionLists) =>
        /\ ExpansionIsCartesian
        /\ \A c \in 1..Len(args.value) :
               \A k \in DOMAIN static_args : args.value[c][k] = static_args[k]

\* C4 amended: the same, except that a static argument whose key is also a
\* variable key is replaced by the variable option; every other static
\* argument is in every dict with its static value.
C4_CartesianProduct ==
    (pc = "returned" /\ AllOptionLists) =>
        /\ ExpansionIsCartesian
        /\ \A c \in 1..Len(args.value) :
               \A k \in DOMAIN static_args :
                   (\A i \in 1..Len(variable_args) : variable_args[i].key # k)
                       => args.value[c][k] = static_args[k]

\* A full product of two variable arguments with two options each, one of
\* them also a static key, has been returned.
C4_Witness ==
    /\ pc = "returned"
    /\ AllOptionLists
    /\ Len(variable_args) = 2
    /\ \A i \in 1..2 : Len(variable_args[i].options.l) = 2
    /\ K_n \in DOMAIN static_args
    /\ \E i \in 1..2 : variable_args[i].key = K_n
    /\ ~args.raised
    /\ Len(args.value) = 4

\* C5: whenever some variable argument is a single scalar instead of a list
\* of options, construct_args ends with an error and returns no list.
C5_ScalarFailsFast ==
    (pc = "returned"
       /\ \E i \in 1..Len(variable_args) : variable_args[i].options.t # "list")
        => args.raised

-----------------------------------------------------------------------------
(* construct_filename, save_result_as_json: pulse_opt/integrals/utilities.py *)

\* sep.join(pieces)
RECURSIVE Join(_, _)
Join(sep, pieces) ==
    IF Len(pieces) = 0 THEN <<>>
    ELSE IF Len(pieces) = 1 THEN pieces[1]
    ELSE pieces[1] \o sep \o Join(sep, Tail(pieces))

S_json == <<"j", "s", "o", "n">>
S_csv  == <<"c", "s", "v">>

\* A filename built from the argument names alone, without their values.
construct_filename_KeysOnly(loss, vkeys, loss_arg, filetype) ==
    loss \o <<"_">> \o Join(<<"_">>, vkeys) \o <<".">> \o filetype

\* A filename whose key/value pairs are joined in reverse order.
construct_filename_Reversed(loss, vkeys, loss_arg, filetype) ==
    loss \o <<"_">>
    \o Join(<<"_">>, [i \in 1..Len(vkeys) |->
                        vkeys[Len(vkeys) + 1 - i] \o <<"_">>
                        \o Str(loss_arg[vkeys[Len(vkeys) + 1 - i]])])
    \o <<".">> \o filetype

\* construct_filename(loss, variable_args, loss_arg, filetype)
construct_filename(loss, vkeys, loss_arg, filetype) ==
    LET variable_args_as_key_value_pairs ==
            Join(<<"_">>, [i \in 1..Len(vkeys) |->
                             vkeys[i] \o <<"_">> \o Str(loss_arg[vkeys[i]])])
    IN loss \o <<"_">> \o variable_args_as_key_value_pairs \o <<".">> \o filetype

\* The filetype parameter of construct_filename: the argument when one is
\* given, "json" when the caller leaves it out.
FiletypeParam(ft) == IF ft.given THEN ft.value ELSE S_json

\* The raw folder after json.dump of res_lookup to {subfolder}/{filename}:
\* open(.., "w") creates the file or replaces its content.
WriteFile(folder, name, content) ==
    [f \in (DOMAIN folder) \cup {name} |-> IF f = name THEN content ELSE folder[f]]

\* save_result_as_json(res_lookup, config, variable_args): the raw folder
\* afterwards, or the AssertionError of the input validation.
save_result_as_json(folder, res_lookup, loss, vkeys) ==
    LET loss_arg == res_lookup.loss_arg
    IN IF ~(\A i \in 1..Len(vkeys) : vkeys[i] \in DOMAIN loss_arg)
       THEN Raised("AssertionError")
       ELSE Returned(WriteFile(folder,
                               construct_filename(loss, vkeys, loss_arg, S_json),
                               res_lookup))

-----------------------------------------------------------------------------
(* Inputs of construct_filename: a loss name, the variable argument names   *)
(* and the loss_arg dicts of two tasks of one batch.                        *)

S_loss == <<"P", "o", "w", "e", "r", "L", "o", "s", "s">>

\* Values a configuration may list as options: an integer, a float, a text
\* that reads like the integer and a text that contains the separator.
FileValues ==
    { PyInt(12), PyFloat(5), PyStr(<<"1", "2">>),
      PyStr(<<"1", "2", "_", "s", "c", "a", "l", "e", "_", "1", "2">>) }

Filetypes ==
    { [given |-> FALSE, value |-> <<>>],
      [given |-> TRUE, value |-> S_csv] }

InitFile ==
    /\ pc = "call"
    /\ \E ks \in KeyLists, ft \in Filetypes :
         \E la1, la2 \in [Range(ks) -> FileValues] :
            fn_in = [loss |-> S_loss, variable_args |-> ks,
                     loss_args |-> <<la1, la2>>, filetype |-> ft]
    /\ filename = <<>>
    /\ raw = <<>>
    /\ results = <<>>
    /\ static_args = Unused
    /\ variable_args = Unused
    /\ args = Unused
    /\ BatchUnused
    /\ PulseUnused
    /\ MoreUnused

\* The caller names the record of each task.
ConstructFilename ==
    /\ pc = "call"
    /\ filename' = [i \in 1..Len(fn_in.loss_args) |->
                      construct_filename(fn_in.loss, fn_in.variable_args,
                                         fn_in.loss_args[i],
                                         FiletypeParam(fn_in.filetype))]
    /\ pc' = "save"
    /\ UNCHANGED <<moreVars, pulseVars, fn_in, raw, results, argVars, batchVars>>

\* The result dict of the i-th task of the batch (a failed optimization).
FileTaskResult(i) ==
    [res |-> PyNone, loss_arg |-> fn_in.loss_args[i], successful |-> FALSE]

\* The orchestrator saves the results one after the other, in list order.
SaveResult ==
    /\ pc = "save"
    /\ LET i == Len(results) + 1
           saved == save_result_as_json(raw, FileTaskResult(i), fn_in.loss,
                                        fn_in.variable_args)
       IN /\ ~saved.raised
          /\ raw' = saved.value
          /\ results' = Append(results, FileTaskResult(i))
          /\ pc' = IF i = Len(fn_in.loss_args) THEN "saved" ELSE "save"
    /\ UNCHANGED <<moreVars, pulseVars, fn_in, filename, argVars, batchVars>>

NextFile == ConstructFilename \/ SaveResult

SpecFile == InitFile /\ [][NextFile]_vars

-----------------------------------------------------------------------------
(* Claims about construct_filename *)

\* '{loss}_{k1}_{v1}_..._{kN}_{vN}.{filetype}', read left to right: after
\* the loss name, each key in turn contributes '_{key}_{value}'.
RECURSIVE KeyValueSuffix(_, _, _)
KeyValueSuffix(vkeys, loss_arg, i) ==
    IF i > Len(vkeys) THEN <<>>
    ELSE <<"_">> \o vkeys[i] \o <<"_">> \o Str(loss_arg[vkeys[i]])
         \o KeyValueSuffix(vkeys, loss_arg, i + 1)

PatternName(loss, vkeys, loss_arg, filetype) ==
    loss \o KeyValueSuffix(vkeys, loss_arg, 1) \o <<".">> \o filetype

\* C6: for a non-empty list of variable argument names the name returned is
\* '{loss}_{k1}_{loss_arg[k1]}_..._{kN}_{loss_arg[kN]}.{filetype}', keys in
\* the order given, filetype json unless one is given.
C6_FilenamePattern ==
    (pc # "call" /\ Len(fn_in.variable_args) > 0) =>
        \A i \in 1..Len(fn_in.loss_args) :
            filename[i] = PatternName(fn_in.loss, fn_in.variable_args,
                                      fn_in.loss_args[i],
                                      IF fn_in.filetype.given
                                      THEN fn_in.filetype.value ELSE S_json)

\* A name over two keys with different values has been returned, once with
\* the default filetype.
C6_Witness ==
    /\ pc # "call"
    /\ Len(fn_in.variable_args) = 2
    /\ ~fn_in.filetype.given
    /\ fn_in.loss_args[1][fn_in.variable_args[1]]
         # fn_in.loss_args[1][fn_in.variable_args[2]]
    /\ Len(filename) = 2

\* C7: with no variable arguments the name returned is '{loss}.json', with
\* no separator between the loss name and the extension.
C7_NoArgsFilename ==
    (pc # "call" /\ Len(fn_in.variable_args) = 0 /\ ~fn_in.filetype.given) =>
        \A i \in 1..Len(fn_in.loss_args) :
            filename[i] = fn_in.loss \o <<".">> \o S_json

\* The formatted value of key k in loss_arg la.
Formatted(la, k) == Str(la[k])

\* Two tasks differ in the formatted value of some variable argument.
FormattedValuesDiffer ==
    \E i \in 1..Len(fn_in.variable_args) :
        Formatted(fn_in.loss_args[1], fn_in.variable_args[i])
            # Formatted(fn_in.loss_args[2], fn_in.variable_args[i])

\* No formatted value of either task contains the separator '_'.
NoSeparatorInValues ==
    \A t \in 1..2 : \A i \in 1..Len(fn_in.variable_args) :
        \A j \in 1..Len(Formatted(fn_in.loss_args[t], fn_in.variable_args[i])) :
            Formatted(fn_in.loss_args[t], fn_in.variable_args[i])[j] # "_"

\* Both tasks have their own record: two files, each holding the result of
\* the task it is named after.
OneRecordPerTask ==
    /\ filename[1] # filename[2]
    /\ Cardinality(DOMAIN raw) = 2
    /\ \A t \in 1..2 :
           raw[construct_filename(fn_in.loss, fn_in.variable_args,
                                  fn_in.loss_args[t], S_json)] = results[t]

\* C9 as stated: two tasks of a batch with different variable-argument
\* value combinations are never written to the same path, and after the
\* batch there are as many records as tasks.
C9_DistinctCombinationsDistinctFiles ==
    (pc = "saved" /\ fn_in.loss_args[1] # fn_in.loss_args[2]) => OneRecordPerTask

\* C9 amended: two tasks are written to different paths, neither record
\* overwritten, when their combinations differ in the formatted text of
\* some value and no formatted value contains the separator '_'.
C9_DistinctFormattedDistinctFiles ==
    (pc = "saved" /\ FormattedValuesDiffer /\ NoSeparatorInValues)
        => OneRecordPerTask

\* Two tasks over two keys that differ in one value only have been saved.
C9_Witness ==
    /\ pc = "saved"
    /\ Len(fn_in.variable_args) = 2
    /\ FormattedValuesDiffer
    /\ NoSeparatorInValues
    /\ fn_in.loss_args[1][fn_in.variable_args[1]]
         = fn_in.loss_args[2][fn_in.variable_args[1]]
    /\ Cardinality(DOMAIN raw) = 2

-----------------------------------------------------------------------------
(* simulation: main/integrals/minimize_integrals.py *)

K_hve   == <<"h", "v", "e">>      \* has_vanishing_endpoints
K_shift == <<"s", "h", "i", "f", "t">>
K_x     == <<"x">>
K_fun   == <<"f", "u", "n">>

\* PowerFactory: endpoint constraints need n >= MinDegree.
MinDegree == 2

\* What the optimizer call does in a task: return a result, raise a
\* RuntimeError, or raise another exception.
Fates == {"ok", "RuntimeError", "ValueError"}

\* LossClass(**loss_arg) for PowerLoss: the assertion of PowerFactory.__init__
\* when endpoint constraints are requested with too low a degree.
LossClass(loss_arg) ==
    IF loss_arg[K_hve].n = 1 /\ ~(loss_arg[K_n].n >= MinDegree)
    THEN Raised("AssertionError")
    ELSE Returned(loss_arg)

\* The OptimizeResult the minimizer returns for a loss: the coefficients x
\* (one per basis function, n+1 of them) and the value fun reached.
OptimizeResult(loss_arg) ==
    PyDict([k \in {K_x, K_fun} |->
              IF k = K_x
              THEN PyList([j \in 1..(loss_arg[K_n].n + 1) |-> PyInt(j * loss_arg[K_n].n)])
              ELSE PyInt(100 + loss_arg[K_n].n)])

\* optimizer(loss=loss, start_coeff=.., constraints=.., bounds=..)
optimizer(loss, f) ==
    IF f = "ok" THEN Returned(OptimizeResult(loss)) ELSE Raised(f)

\* simulation with a handler for RuntimeError only.
simulation_OnlyRuntimeError(loss_arg, f) ==
    LET loss == LossClass(loss_arg)
    IN IF loss.raised THEN loss
       ELSE LET res == optimizer(loss.value, f)
            IN IF res.raised /\ res.exc = "RuntimeError"
               THEN Returned([res |-> PyNone, loss_arg |-> loss_arg, successful |-> FALSE])
               ELSE IF res.raised THEN res
               ELSE Returned([res |-> res.value, loss_arg |-> loss_arg,
                              successful |-> TRUE])

\* simulation(loss_arg, LossClass, optimizer): the Loss is built before the
\* try block; the optimizer call is inside it, with handlers for
\* RuntimeError and for Exception.
simulation(loss_arg, f) ==
    LET loss == LossClass(loss_arg)
    IN IF loss.raised THEN loss
       ELSE LET res == optimizer(loss.value, f)
            IN IF res.raised /\ res.exc = "RuntimeError"
               THEN Returned([res |-> PyNone, loss_arg |-> loss_arg, successful |-> FALSE])
               ELSE IF res.raised
               THEN Returned([res |-> PyNone, loss_arg |-> loss_arg, successful |-> FALSE])
               ELSE Returned([res |-> res.value, loss_arg |-> loss_arg,
                              successful |-> TRUE])

-----------------------------------------------------------------------------
(* flatten_dict, add_prefix, create_table: pulse_opt/integrals/utilities.py *)

S_config  == <<"c", "o", "n", "f", "i", "g">>
S_args    == <<"a", "r", "g", "s">>
S_results == <<"r", "e", "s", "u", "l", "t", "s">>
K_name        == <<"n", "a", "m", "e">>
K_description == <<"d", "e", "s", "c", "r", "i", "p", "t", "i", "o", "n">>
K_loss        == <<"l", "o", "s", "s">>
K_loss_path   == <<"l", "o", "s", "s", "_", "p", "a", "t", "h">>

\* The dict with the given (key, value) items.
DictOf(pairs) ==
    [k \in {p[1] : p \in pairs} |-> (CHOOSE p \in pairs : p[1] = k)[2]]

\* The items flatten_dict collects for the dict d under parent_key.
RECURSIVE flatten_items(_, _)
flatten_items(d, parent_key) ==
    UNION { LET new_key == IF parent_key # <<>>
                           THEN parent_key \o <<".">> \o k ELSE k
            IN IF d[k].t = "dict"
               THEN flatten_items(d[k].l, new_key)
               ELSE {<<new_key, d[k]>>} : k \in DOMAIN d }

\* flatten_dict(d): {} for None.
flatten_dict(d) ==
    IF d.t = "None" THEN <<>> ELSE DictOf(flatten_items(d.l, <<>>))

\* add_prefix(flat_lookup, prefix): {(prefix + key): value}
add_prefix(flat_lookup, prefix) ==
    DictOf({<<prefix \o k, flat_lookup[k]>> : k \in DOMAIN flat_lookup})

\* a | b for dicts: the items of b win.
DictUnion(a, b) ==
    [k \in (DOMAIN a) \cup (DOMAIN b) |-> IF k \in DOMAIN b THEN b[k] ELSE a[k]]

\* The run metadata create_table copies from the configuration.
ConfigInfo(cfg) ==
    [k \in {K_name, K_description, K_loss, K_loss_path} |->
        CASE k = K_name        -> PyStr(cfg.name)
          [] k = K_description -> PyStr(cfg.description)
          [] k = K_loss        -> PyStr(cfg.content.loss)
          [] k = K_loss_path   -> PyStr(cfg.content.loss_path)]

\* create_table(results, config): the rows handed to pd.DataFrame.
create_table(rs, cfg) ==
    [r \in 1..Len(rs) |->
        DictUnion(DictUnion(add_prefix(ConfigInfo(cfg), S_config),
                            add_prefix(flatten_dict(PyDict(rs[r].loss_arg)), S_args)),
                  add_prefix(flatten_dict(rs[r].res), S_results))]

-----------------------------------------------------------------------------
(* main, run_with_multiprocessing, run_without_multiprocessing *)

\* starmap_async(simulation, items, chunksize=10)
ChunkSize == 10

\* Cores of the machine the batch runs on.
CpuCount == 8

\* Most optimizer failures in one batch.
MaxFailing == 1

Max(a, b) == IF a >= b THEN a ELSE b

\* processes = max(2, os.cpu_count() // 4)
Processes == Max(2, CpuCount \div 4)

NTasks == Len(items)

\* Pool._get_tasks: consecutive chunks of ChunkSize items.
NChunks == (NTasks + ChunkSize - 1) \div ChunkSize
ChunkFirst(c) == (c - 1) * ChunkSize + 1
ChunkLast(c)  == IF c * ChunkSize < NTasks THEN c * ChunkSize ELSE NTasks

\* A result list in completion order, matched to the items by position.
GetValue_CompletionOrder(rets) ==
    [k \in 1..Len(rets) |-> [rets[done_order[k]] EXCEPT !.loss_arg = items[k]]]

\* The value of result.get() once no chunk is left: the returned dicts in
\* the order of items.
GetValue(rets) == [i \in 1..Len(rets) |-> rets[i]]

\* Degrees listed as the options of n: a short batch whose second task
\* asks for too low a degree, and a batch of one full chunk plus one task.
DegreeLists ==
    { <<2, 1, 3>>,
      [i \in 1..(ChunkSize + 1) |-> IF i <= ChunkSize THEN i + 1 ELSE 1] }

S_run == <<"r", "u", "n">>

Configs ==
    { [name |-> S_run, description |-> <<"d">>,
       content |-> [loss |-> S_loss, loss_path |-> <<"p">>,
                    static_args |-> [k \in {K_hve, K_shift} |->
                                        IF k = K_hve THEN PyBool(h) ELSE PyFloat(5)],
                    variable_args |-> << [key |-> K_n,
                                          options |-> PyList([i \in 1..Len(ds) |->
                                                                PyInt(ds[i])])] >>]] :
      h \in BOOLEAN, ds \in DegreeLists }

\* list(config["content"]["variable_args"].keys())
VariableArgNames(cfg) ==
    [i \in 1..Len(cfg.content.variable_args) |-> cfg.content.variable_args[i].key]

\* The state when main has loaded the configuration and built items.
Init ==
    /\ pc = "dispatch"
    /\ mode \in {"mp", "seq"}
    /\ config \in Configs
    /\ items = construct_args(config.content.static_args,
                              config.content.variable_args).value
    /\ fate \in {f \in [1..Len(items) -> Fates] :
                    Cardinality({i \in 1..Len(items) : f[i] # "ok"}) <= MaxFailing}
    /\ task = [i \in 1..Len(items) |-> "pending"]
    /\ ret = [i \in 1..Len(items) |-> PyNone]
    /\ chunk = <<>>
    /\ done_order = <<>>
    /\ got = <<>>
    /\ results = <<>>
    /\ raw = <<>>
    /\ table = <<>>
    /\ static_args = Unused
    /\ variable_args = Unused
    /\ args = Unused
    /\ fn_in = Unused
    /\ filename = Unused
    /\ PulseUnused
    /\ MoreUnused

\* runner(simulation=simulation, items=items, config=config)
Dispatch ==
    /\ pc = "dispatch"
    /\ IF mode = "mp"
       THEN /\ chunk' = [c \in 1..NChunks |->
                           [status |-> "queued", next |-> ChunkFirst(c)]]
            /\ pc' = "get"
       ELSE /\ chunk' = chunk
            /\ pc' = "loop"
    /\ UNCHANGED <<moreVars, pulseVars, argVars, fileVars, raw, results, mode, config, items, fate,
                   task, ret, done_order, got, table>>

\* An idle worker process takes the next chunk from the task queue.
WorkerTakesChunk(c) ==
    /\ pc = "get"
    /\ chunk[c].status = "queued"
    /\ \A b \in 1..(c - 1) : chunk[b].status # "queued"
    /\ Cardinality({b \in 1..NChunks : chunk[b].status = "running"}) < Processes
    /\ chunk' = [chunk EXCEPT ![c].status = "running"]
    /\ UNCHANGED <<moreVars, pulseVars, pc, argVars, fileVars, raw, results, mode, config, items,
                   fate, task, ret, done_order, got, table>>

\* A worker runs the next task of its chunk. An exception that leaves
\* simulation ends the chunk: its remaining tasks are not run.
WorkerRunsTask(c) ==
    /\ pc = "get"
    /\ chunk[c].status = "running"
    /\ LET i == chunk[c].next
           out == simulation(items[i], fate[i])
       IN IF out.raised
          THEN /\ task' = [task EXCEPT ![i] = "raised"]
               /\ chunk' = [chunk EXCEPT ![c].status = "failed"]
               /\ UNCHANGED <<ret, done_order>>
          ELSE /\ task' = [task EXCEPT ![i] = "returned"]
               /\ ret' = [ret EXCEPT ![i] = out.value]
               /\ done_order' = Append(done_order, i)
               /\ chunk' = [chunk EXCEPT ![c] =
                              [status |-> IF i = ChunkLast(c) THEN "done" ELSE "running",
                               next |-> i + 1]]
    /\ UNCHANGED <<moreVars, pulseVars, pc, argVars, fileVars, raw, results, mode, config, items,
                   fate, got, table>>

\* result.get() returns when no chunk is left: the list of returned dicts,
\* or the exception of a failed chunk, which leaves run_with_multiprocessing
\* and main.
GetResults ==
    /\ pc = "get"
    /\ \A c \in 1..NChunks : chunk[c].status \in {"done", "failed"}
    /\ IF \E c \in 1..NChunks : chunk[c].status = "failed"
       THEN /\ pc' = "aborted"
            /\ got' = got
       ELSE /\ got' = GetValue(ret)
            /\ pc' = IF NTasks = 0 THEN "aggregate" ELSE "save"
    /\ UNCHANGED <<moreVars, pulseVars, argVars, fileVars, raw, results, mode, config, items, fate,
                   task, ret, chunk, done_order, table>>

\* One pass of the loop over result.get(): save the record, append.
SaveNext ==
    /\ pc = "save"
    /\ LET i == Len(results) + 1
           saved == save_result_as_json(raw, got[i], config.content.loss,
                                        VariableArgNames(config))
       IN /\ ~saved.raised
          /\ raw' = saved.value
          /\ results' = Append(results, got[i])
          /\ pc' = IF i = NTasks THEN "aggregate" ELSE "save"
    /\ UNCHANGED <<moreVars, pulseVars, argVars, fileVars, batchVars>>

\* The sequential loop running the next task that has not run yet, without
\* waiting for the record of the task before it.
SeqRunTask_Eager ==
    /\ pc = "loop"
    /\ \E i \in 1..NTasks :
          /\ task[i] = "pending"
          /\ \A j \in 1..(i - 1) : task[j] # "pending"
          /\ LET out == simulation(items[i], fate[i])
             IN IF out.raised
                THEN /\ task' = [task EXCEPT ![i] = "raised"]
                     /\ pc' = "aborted"
                     /\ UNCHANGED <<ret, done_order>>
                ELSE /\ task' = [task EXCEPT ![i] = "returned"]
                     /\ ret' = [ret EXCEPT ![i] = out.value]
                     /\ done_order' = Append(done_order, i)
                     /\ pc' = pc
    /\ UNCHANGED <<moreVars, pulseVars, argVars, fileVars, raw, results, mode, config, items, fate,
                   chunk, got, table>>

\* Sequential loop: res_lookup = simulation(*item). An exception leaves
\* the loop, run_without_multiprocessing and main.
SeqRunTask ==
    /\ pc = "loop"
    /\ LET i == Len(results) + 1
           out == simulation(items[i], fate[i])
       IN /\ i <= NTasks
          /\ task[i] = "pending"
          /\ IF out.raised
             THEN /\ task' = [task EXCEPT ![i] = "raised"]
                  /\ pc' = "aborted"
                  /\ UNCHANGED <<ret, done_order>>
             ELSE /\ task' = [task EXCEPT ![i] = "returned"]
                  /\ ret' = [ret EXCEPT ![i] = out.value]
                  /\ done_order' = Append(done_order, i)
                  /\ pc' = pc
    /\ UNCHANGED <<moreVars, pulseVars, argVars, fileVars, raw, results, mode, config, items, fate,
                   chunk, got, table>>

\* Sequential loop: save the record of the task just run, append.
SeqSave ==
    /\ pc = "loop"
    /\ LET i == Len(results) + 1
       IN /\ i <= NTasks
          /\ task[i] = "returned"
          /\ LET saved == save_result_as_json(raw, ret[i], config.content.loss,
                                              VariableArgNames(config))
             IN /\ ~saved.raised
                /\ raw' = saved.value
                /\ results' = Append(results, ret[i])
                /\ pc' = IF i = NTasks THEN "aggregate" ELSE "loop"
    /\ UNCHANGED <<moreVars, pulseVars, argVars, fileVars, batchVars>>

\* The table built from the results collected so far, before the loop over
\* the results has ended.
CreateTable_Early ==
    /\ pc \in {"aggregate", "save", "loop"}
    /\ table' = create_table(results, config)
    /\ pc' = "persisted"
    /\ UNCHANGED <<moreVars, pulseVars, argVars, fileVars, raw, results, mode, config, items, fate,
                   task, ret, chunk, done_order, got>>

\* df = create_table(results, config), then the table is written as
\* results.csv and results.pkl.
CreateTable ==
    /\ pc = "aggregate"
    /\ table' = create_table(results, config)
    /\ pc' = "persisted"
    /\ UNCHANGED <<moreVars, pulseVars, argVars, fileVars, raw, results, mode, config, items, fate,
                   task, ret, chunk, done_order, got>>

Next ==
    \/ Dispatch
    \/ \E c \in 1..Len(chunk) : WorkerTakesChunk(c)
    \/ \E c \in 1..Len(chunk) : WorkerRunsTask(c)
    \/ GetResults
    \/ SaveNext
    \/ SeqRunTask
    \/ SeqSave
    \/ CreateTable

Spec == Init /\ [][Next]_vars

-----------------------------------------------------------------------------
(* Claims about simulation, dispatch and aggregation *)

\* C1: every invocation of simulation ends by returning a result dict; no
\* failure inside the task, a failure while the Loss is built included,
\* leaves the task as an exception or reaches the dispatcher.
C1_TaskAlwaysReturns ==
    /\ \A i \in 1..Len(items) : task[i] # "raised"
    /\ pc # "aborted"

FailureRecord(loss_arg) ==
    [res |-> PyNone, loss_arg |-> loss_arg, successful |-> FALSE]

SuccessRecord(loss_arg) ==
    [res |-> OptimizeResult(loss_arg), loss_arg |-> loss_arg, successful |-> TRUE]

\* C2: a task whose optimizer call raises (RuntimeError or any other
\* exception) returns {res: None, loss_arg, successful: False}; one whose
\* optimizer returns normally returns {res: result, loss_arg, successful:
\* True}; so successful holds exactly when res is not None.
C2_OptimizerOutcomeRecorded ==
    \A i \in 1..Len(items) :
        /\ (task[i] # "pending" /\ ~LossClass(items[i]).raised) =>
              /\ task[i] = "returned"
              /\ fate[i] # "ok" => ret[i] = FailureRecord(items[i])
              /\ fate[i] = "ok" => ret[i] = SuccessRecord(items[i])
        /\ task[i] = "returned" => (ret[i].successful <=> ret[i].res # PyNone)

\* One task has returned after its optimizer raised an exception other than
\* RuntimeError, another after its optimizer returned.
C2_Witness ==
    \E i, j \in 1..Len(items) :
        /\ task[i] = "returned" /\ fate[i] = "ValueError" /\ ~ret[i].successful
        /\ task[j] = "returned" /\ fate[j] = "ok" /\ ret[j].successful

HasPrefix(c, p) == Len(c) >= Len(p) /\ SubSeq(c, 1, Len(p)) = p

S_successful == <<"s", "u", "c", "c", "e", "s", "s", "f", "u", "l">>

\* C3: when some tasks' optimizers raise, the run does not abort and the
\* table has one row per task; the row of a failed task has no results.*
\* field, records successful = false, and has its args.* fields.
C3_FailedTasksKeepTheirRow ==
    /\ pc = "aborted" => \E i \in 1..Len(items) : LossClass(items[i]).raised
    /\ (pc = "persisted" /\ \E i \in 1..Len(items) : fate[i] # "ok") =>
          /\ Len(table) = Len(items)
          /\ \A i \in 1..Len(items) : fate[i] # "ok" =>
                /\ \A c \in DOMAIN table[i] :
                       ~HasPrefix(c, S_results \o <<".">>)
                /\ \E c \in DOMAIN table[i] :
                       /\ Len(c) >= Len(S_successful)
                       /\ SubSeq(c, Len(c) - Len(S_successful) + 1, Len(c))
                              = S_successful
                       /\ table[i][c] = PyBool(FALSE)
                /\ \A k \in DOMAIN items[i] :
                       /\ (S_args \o <<".">> \o k) \in DOMAIN table[i]
                       /\ table[i][S_args \o <<".">> \o k] = items[i][k]

\* C8: in both dispatch modes every task that has returned a result dict
\* has its own record in the raw folder when the run ends, whatever
\* happened to the other tasks of the batch.
C8_ReturnedTasksArePersisted ==
    pc \in {"persisted", "aborted"} =>
        \A i \in 1..Len(items) :
            task[i] = "returned" => \E f \in DOMAIN raw : raw[f] = ret[i]

\* The part of a table row under a prefix, as a dict: the prefix and the
\* separator after it, if there is one, are removed from the column names.
RowPart(row, prefix) ==
    DictOf({<<IF HasPrefix(c, prefix \o <<".">>)
              THEN SubSeq(c, Len(prefix) + 2, Len(c))
              ELSE SubSeq(c, Len(prefix) + 1, Len(c)),
              row[c]>> : c \in {d \in DOMAIN row : HasPrefix(d, prefix)}})

\* The task of the batch that was given loss_arg.
TaskOf(loss_arg) == CHOOSE i \in 1..Len(items) : items[i] = loss_arg

\* What the optimization of task i produced.
ResOfTask(i) == IF fate[i] = "ok" THEN OptimizeResult(items[i]) ELSE PyNone

\* C10: under parallel dispatch, whatever the interleaving and completion
\* order of the workers, every result handed to the orchestrator carries the
\* loss_arg of the task that produced its res, every table row has the
\* arguments and the results of one and the same task, and the rows are those
\* of the tasks in the order of items.
C10_ResultsKeepTheirTask ==
    mode = "mp" =>
        /\ pc \in {"save", "aggregate", "persisted"} =>
              /\ Len(got) = Len(items)
              /\ \A k \in 1..Len(got) :
                     /\ \E i \in 1..Len(items) : items[i] = got[k].loss_arg
                     /\ got[k].res = ResOfTask(TaskOf(got[k].loss_arg))
              /\ {got[k].loss_arg : k \in 1..Len(got)} = Range(items)
        /\ pc = "persisted" =>
              /\ Len(table) = Len(items)
              /\ \A r \in 1..Len(table) :
                     /\ RowPart(table[r], S_args) = items[r]
                     /\ RowPart(table[r], S_results) = flatten_dict(ResOfTask(r))

\* A parallel batch has been tabulated in which the last task of items
\* completed first and one optimizer failed.
C10_Witness ==
    /\ mode = "mp"
    /\ pc = "persisted"
    /\ Len(items) > ChunkSize
    /\ done_order[1] = Len(items)
    /\ \E i \in 1..Len(items) : fate[i] # "ok"

\* The tasks that have been started.
Started == {i \in 1..Len(items) : task[i] # "pending"}

\* The record of task i is in the raw folder.
RecordWritten(i) == \E f \in DOMAIN raw : raw[f] = ret[i]

\* C11: sequential dispatch starts the tasks one at a time in the order of
\* items; task i+1 starts only after task i has returned and its record has
\* been written; the list of results has the result of items[i] at position
\* i, and is complete when the runner returns.
C11_SequentialKeepsOrder ==
    mode = "seq" =>
        /\ \A i \in Started : \A j \in 1..(i - 1) :
               /\ task[j] = "returned"
               /\ j <= Len(results)
               /\ RecordWritten(j)
        /\ \A i \in 1..Len(results) :
               /\ results[i] = ret[i]
               /\ results[i].loss_arg = items[i]
               /\ results[i].res = ResOfTask(i)
        /\ pc \in {"aggregate", "persisted"} => Len(results) = Len(items)

\* A sequential batch of more than one chunk's worth of tasks has run to
\* its end, one optimizer having failed.
C11_Witness ==
    /\ mode = "seq"
    /\ pc = "persisted"
    /\ Len(results) = Len(items)
    /\ Len(items) > ChunkSize
    /\ \E i \in 1..Len(items) : fate[i] # "ok"

\* C12: the table is built and written only after every task of the batch
\* has returned (successful or not) and its record has been written; while a
\* task is pending or running there is no table; the table is built from
\* exactly the results of all tasks.
C12_TableAfterAllTasks ==
    /\ (\E i \in 1..Len(items) : task[i] # "returned") => table = <<>>
    /\ pc # "persisted" => table = <<>>
    /\ pc = "persisted" =>
          /\ \A i \in 1..Len(items) : task[i] = "returned" /\ RecordWritten(i)
          /\ Len(results) = Len(items)
          /\ table = create_table([i \in 1..Len(items) |-> ret[i]], config)

\* The table of a batch has been written, every task having its own record.
C12_Witness ==
    /\ pc = "persisted"
    /\ table # <<>>
    /\ Len(table) = Len(items)
    /\ Cardinality(DOMAIN raw) = Len(items)

S_args_n    == S_args \o <<".">> \o K_n
S_results_x == S_results \o <<".">> \o K_x

\* C13: every column of the table is named 'config.<key>', 'args.<key>' or
\* 'results.<key>'; the loss argument n is the column 'args.n' and the
\* optimizer's x the column 'results.x'.
C13_ColumnsArePrefixedWithDot ==
    pc = "persisted" =>
        \A r \in 1..Len(table) :
            /\ \A c \in DOMAIN table[r] :
                   \/ HasPrefix(c, S_config \o <<".">>)
                   \/ HasPrefix(c, S_args \o <<".">>)
                   \/ HasPrefix(c, S_results \o <<".">>)
            /\ S_args_n \in DOMAIN table[r]
            /\ table[r][S_args_n] = items[r][K_n]
            /\ fate[r] = "ok" => S_results_x \in DOMAIN table[r]


-----------------------------------------------------------------------------
(* Floats, as exact fractions in lowest terms with a positive denominator *)

RECURSIVE GCD(_, _)
GCD(a, b) == IF b = 0 THEN a ELSE GCD(b, a % b)

Abs(i) == IF i < 0 THEN -i ELSE i

Rat(n, d) ==
    LET g == GCD(Abs(n), Abs(d))
        sgn == IF d < 0 THEN -1 ELSE 1
    IN [n |-> sgn * (n \div g), d |-> sgn * (d \div g)]

Zero == Rat(0, 1)
One  == Rat(1, 1)

\* The least common denominator of two fractions.
LCD(a, b) == (a.d \div GCD(a.d, b.d)) * b.d

RAdd(a, b) == Rat(a.n * (LCD(a, b) \div a.d) + b.n * (LCD(a, b) \div b.d), LCD(a, b))
RSub(a, b) == Rat(a.n * (LCD(a, b) \div a.d) - b.n * (LCD(a, b) \div b.d), LCD(a, b))
RMul(a, b) == Rat(a.n * b.n, a.d * b.d)
RDiv(a, b) == Rat(a.n * b.d, a.d * b.n)
RAbs(a)    == [n |-> Abs(a.n), d |-> a.d]

\* a > b. A threshold 1/M is compared without multiplying by M.
RGt(a, b) ==
    IF b.n = 1 /\ a.n >= 0
    THEN a.n > 0 /\ b.d > a.d \div a.n
    ELSE a.n * b.d > b.n * a.d

\* x ** k
RECURSIVE RPow(_, _)
RPow(x, k) == IF k = 0 THEN One ELSE RMul(x, RPow(x, k - 1))

\* sum(...): the terms added from left to right, starting at 0.
RECURSIVE RSum(_)
RSum(q) == IF q = <<>> THEN Zero
           ELSE RAdd(RSum(SubSeq(q, 1, Len(q) - 1)), q[Len(q)])

Min(a, b) == IF a <= b THEN a ELSE b

\* sin and cos of m quarter turns (m * pi/2).
SinQ(m) == CASE m % 4 = 0 -> 0 [] m % 4 = 1 -> 1 [] m % 4 = 2 -> 0 [] m % 4 = 3 -> -1
CosQ(m) == CASE m % 4 = 0 -> 1 [] m % 4 = 1 -> 0 [] m % 4 = 2 -> -1 [] m % 4 = 3 -> 0

-----------------------------------------------------------------------------
(* Basis functions: pulse_opt/pulses/{power,fourier,gaussian}_factory.py *)

\* A basis function or antiderivative, as the lambda that defines it: its
\* kind, the index it captured (power, j), the location of a Gaussian, and,
\* for a function given by its values, the values at 0 and at 1.
Fn(kind, k) == [kind |-> kind, k |-> k, loc |-> Zero, at0 |-> Zero, at1 |-> Zero]
GaussFn(kind, loc) == [kind |-> kind, k |-> 0, loc |-> loc, at0 |-> Zero, at1 |-> Zero]
TabFn(at0, at1) == [kind |-> "table", k |-> 0, loc |-> Zero, at0 |-> at0, at1 |-> at1]

\* f(y) for the lambdas of the Power and Fourier factories and for
\* tabulated functions. The Fourier functions are evaluated at whole y, where
\* sin and cos are 0, 1 or -1; their values (not those of the integrals) are
\* in units of pi/2.
Call(f, y) ==
    CASE f.kind = "x**power" -> RPow(y, f.k)
      [] f.kind = "x**(power+1)/(power+1)" ->
             RDiv(RPow(y, f.k + 1), Rat(f.k + 1, 1))
      [] f.kind = "fourier" ->
             LET h == f.k \div 2 + 1
             IN IF f.k % 2 = 0 THEN Rat(CosQ(y.n * h) * h, 1)
                ELSE Rat(SinQ(y.n * h) * h, 1)
      [] f.kind = "fourier_integral" ->
             LET h == f.k \div 2 + 1
             IN IF f.k % 2 = 0 THEN RSub(Rat(SinQ(y.n * h), 1), Zero)
                ELSE RAdd(Rat(-CosQ(y.n * h), 1), One)
      [] f.kind = "table" -> IF y = Zero THEN f.at0 ELSE f.at1

\* The functions whose values the model computes.
Computable(f) == f.kind \notin {"norm.pdf", "norm.cdf"}

-----------------------------------------------------------------------------
(* Basis: pulse_opt/pulses/basis.py *)

\* Basis(functions, integrals, shift, bounds)
Basis(functions, integrals, shift, bounds) ==
    [functions |-> functions, integrals |-> integrals, shift |-> shift,
     bounds |-> bounds, number_of_functions |-> Len(functions)]

\* The Basis the factories construct, with the keyword
\* has_vanishing_endpoints.
BasisWithEndpoints(functions, integrals, shift, bounds, hve) ==
    Basis(functions, integrals, shift, bounds) @@ ("has_vanishing_endpoints" :> hve)

\* areas: F(1.0 - shift) - F(0.0 - shift) for F in integrals
areas(b) ==
    [i \in 1..Len(b.integrals) |->
        RSub(Call(b.integrals[i], RSub(One, b.shift)),
             Call(b.integrals[i], RSub(Zero, b.shift)))]

\* sum(coeff * area for coeff, area in zip(coefficients, areas))
area_of_waveform(cs, as) ==
    RSum([i \in 1..Min(Len(cs), Len(as)) |-> RMul(cs[i], as[i])])

\* waveform(coefficients)(x)
waveform(b, cs, x) ==
    RSum([i \in 1..Min(Len(cs), Len(b.functions)) |->
            RMul(cs[i], Call(b.functions[i], RSub(x, b.shift)))])

\* A parametrization that does not subtract the value of the
\* antiderivative at 0.
parametrization_NoOffset(b, cs, x) ==
    RSum([i \in 1..Min(Len(cs), Len(b.integrals)) |->
            RMul(cs[i], Call(b.integrals[i], RSub(x, b.shift)))])

\* parametrization(coefficients)(x):
\* sum(coeff*F(x-shift) - coeff*F(0.0-shift) for coeff, F in zip(..))
parametrization(b, cs, x) ==
    RSum([i \in 1..Min(Len(cs), Len(b.integrals)) |->
            RSub(RMul(cs[i], Call(b.integrals[i], RSub(x, b.shift))),
                 RMul(cs[i], Call(b.integrals[i], RSub(Zero, b.shift))))])

\* The tolerance of Basis.coefficient_are_valid: 1e-6.
AreaTolerance == Rat(1, 1000000)

\* coefficient_are_valid(coefficients)
coefficient_are_valid(b, cs) ==
    IF Len(cs) # b.number_of_functions THEN FALSE
    ELSE LET area == area_of_waveform(cs, areas(b))
         IN IF RGt(RAbs(RSub(area, One)), AreaTolerance) THEN FALSE
            ELSE TRUE

\* coefficient_are_valid(coefficients, abs_error=...), as PulseFactory
\* calls it: the same two checks, the area within abs_error of 1.
coefficient_are_valid_within(b, cs, abs_error) ==
    IF Len(cs) # b.number_of_functions THEN FALSE
    ELSE LET area == area_of_waveform(cs, areas(b))
         IN IF RGt(RAbs(RSub(area, One)), abs_error) THEN FALSE
            ELSE TRUE

\* The area below which default_coefficients takes a basis function to
\* have a vanishing area: 1e-3.
VanishingArea == Rat(1, 1000)

\* default_coefficients with the nonzero entry at the last basis function
\* whose area does not vanish.
default_coefficients_Last(b) ==
    LET a == areas(b)
        I == {i \in 1..Len(a) : RGt(RAbs(a[i]), VanishingArea)}
    IN IF I = {} THEN Raised("Exception")
       ELSE LET i == CHOOSE m \in I : \A o \in I : o <= m
            IN Returned([j \in 1..Len(a) |-> IF j = i THEN RDiv(One, a[i]) ELSE Zero])

\* default_coefficients: zeros_like(areas), 1.0 / area at the first area
\* with abs(area) > 1e-3; an Exception when there is none.
default_coefficients(b) ==
    LET a == areas(b)
        I == {i \in 1..Len(a) : RGt(RAbs(a[i]), VanishingArea)}
    IN IF I = {} THEN Raised("Exception")
       ELSE LET i == CHOOSE m \in I : \A o \in I : m <= o
            IN Returned([j \in 1..Len(a) |-> IF j = i THEN RDiv(One, a[i]) ELSE Zero])

\* constraints that never include the endpoint constraints.
constraints_AreaOnly(b) ==
    << [type |-> "eq", fun |-> "area_of_waveform - 1.0"] >>

\* constraints: the list of equality constraints, 'area = 1' and, with
\* has_vanishing_endpoints, 'waveform(0) = 0' and 'waveform(1) = 0'.
constraints(b) ==
    << [type |-> "eq", fun |-> "area_of_waveform - 1.0"] >>
    \o (IF b.has_vanishing_endpoints
        THEN << [type |-> "eq", fun |-> "waveform(0)"],
                [type |-> "eq", fun |-> "waveform(1)"] >>
        ELSE <<>>)

\* constraint["fun"](coefficients)
Residual(b, con, cs) ==
    CASE con.fun = "area_of_waveform - 1.0" ->
             RSub(area_of_waveform(cs, areas(b)), One)
      [] con.fun = "waveform(0)" -> waveform(b, cs, Zero)
      [] con.fun = "waveform(1)" -> waveform(b, cs, One)

-----------------------------------------------------------------------------
(* PulseFactory and the three factories *)

\* The bound (1e-3, None) and the bound (None, None).
LowerBounded == <<"1e-3", "None">>
Unbounded    == <<"None", "None">>

\* GaussianFactory: endpoint constraints need n >= MinGaussians.
MinGaussians == 3

\* PulseFactory.__init__(basis, perform_checks)
PulseFactory(basis, perform_checks) ==
    [basis |-> basis, perform_checks |-> perform_checks]

\* PowerFactory.__init__(shift, n, has_vanishing_endpoints, perform_checks)
PowerFactory(shift, n, hve, perform_checks) ==
    IF hve /\ ~(n >= MinDegree) THEN Raised("AssertionError")
    ELSE Returned(PulseFactory(
            BasisWithEndpoints(
                [i \in 1..(n + 1) |-> Fn("x**power", i - 1)],
                [i \in 1..(n + 1) |-> Fn("x**(power+1)/(power+1)", i - 1)],
                shift,
                <<LowerBounded>> \o [i \in 1..n |-> Unbounded],
                hve),
            perform_checks))

\* FourierFactory.__init__(shift, n, has_vanishing_endpoints, perform_checks)
FourierFactory(shift, n, hve, perform_checks) ==
    Returned(PulseFactory(
        BasisWithEndpoints(
            [i \in 1..(2 * (n + 1)) |-> Fn("fourier", i - 1)],
            [i \in 1..(2 * (n + 1)) |-> Fn("fourier_integral", i - 1)],
            shift,
            <<LowerBounded, LowerBounded>> \o [i \in 1..(2 * n) |-> Unbounded],
            hve),
        perform_checks))

\* locations = np.linspace(0.0, 1.0, n) if n > 1 else [0.5]
locations(n) ==
    IF n > 1 THEN [i \in 1..n |-> Rat(i - 1, n - 1)] ELSE <<Rat(1, 2)>>

\* GaussianFactory.__init__(n, scale, has_vanishing_endpoints, perform_checks)
GaussianFactory(n, hve, perform_checks) ==
    IF hve /\ ~(n >= MinGaussians) THEN Raised("AssertionError")
    ELSE Returned(PulseFactory(
            BasisWithEndpoints(
                [i \in 1..Len(locations(n)) |-> GaussFn("norm.pdf", locations(n)[i])],
                [i \in 1..Len(locations(n)) |-> GaussFn("norm.cdf", locations(n)[i])],
                Zero,
                [i \in 1..n |-> Unbounded],
                hve),
            perform_checks))

\* PulseFactory.abs_error = 1e-2
abs_error == Rat(1, 100)

\* An exception raised with an argument in its message.
RaisedWith(exc, arg) == [raised |-> TRUE, exc |-> exc, value |-> arg]

\* Pulse(pulse=waveform, parametrization=parametrization, perform_checks=..):
\* the two closures, each with the coefficients it captured and its values
\* at 0 and 1.
Pulse(b, cs, perform_checks) ==
    [coefficients |-> cs,
     pulse |-> <<waveform(b, cs, Zero), waveform(b, cs, One)>>,
     parametrization |-> <<parametrization(b, cs, Zero), parametrization(b, cs, One)>>,
     perform_checks |-> perform_checks]

\* sample that builds the pulse without verifying the coefficients.
sample_NoVerify(f, cs) ==
    Returned(Pulse(f.basis, cs, f.perform_checks))

\* PulseFactory.sample(coefficients): _verify_coefficients, then the Pulse.
sample(f, cs) ==
    IF ~coefficient_are_valid_within(f.basis, cs, abs_error)
    THEN RaisedWith("ValueError", cs)
    ELSE Returned(Pulse(f.basis, cs, f.perform_checks))

-----------------------------------------------------------------------------
(* Constructing a factory and using its basis *)

\* An outcome that is not there yet.
Pending == [raised |-> FALSE, exc |-> "pending", value |-> <<>>]

\* A basis function and its antiderivative, given by their values at 0 and
\* 1: the constant 1; a function of area 0; one of area 1/2000; one of
\* area -2; one of area 2 whose antiderivative is 1 at 0.
TabPairs ==
    { [f |-> TabFn(One, One),            F |-> TabFn(Zero, One)],
      [f |-> TabFn(One, Rat(-1, 1)),     F |-> TabFn(One, One)],
      [f |-> TabFn(Zero, Rat(1, 1000)),  F |-> TabFn(Zero, Rat(1, 2000))],
      [f |-> TabFn(Rat(-2, 1), Rat(-2, 1)), F |-> TabFn(Zero, Rat(-2, 1))],
      [f |-> TabFn(Zero, Rat(4, 1)),     F |-> TabFn(One, Rat(3, 1))] }

Families == {"PowerFactory", "FourierFactory", "GaussianFactory", "PulseFactory"}

\* The constructor calls: the factories with n, shift and the two flags,
\* and PulseFactory(Basis(functions, integrals, 0.0, bounds, False)).
FactoryArgs(fam) ==
    CASE fam = "PowerFactory" ->
             [n : 0..MaxN, shift : {Zero, Rat(1, 2), One},
              has_vanishing_endpoints : BOOLEAN, perform_checks : BOOLEAN,
              pairs : {<<>>}]
      [] fam = "FourierFactory" ->
             [n : 0..MaxN, shift : {Zero, One},
              has_vanishing_endpoints : BOOLEAN, perform_checks : BOOLEAN,
              pairs : {<<>>}]
      [] fam = "GaussianFactory" ->
             [n : 0..MaxN, shift : {Zero},
              has_vanishing_endpoints : BOOLEAN, perform_checks : BOOLEAN,
              pairs : {<<>>}]
      [] fam = "PulseFactory" ->
             [n : {0}, shift : {Zero},
              has_vanishing_endpoints : {FALSE}, perform_checks : {TRUE},
              pairs : UNION {[1..m -> TabPairs] : m \in 1..MaxTab}]

\* The coefficients handed to sample: 0, 1, 1.005, 6 and -6.
CoeffValues == {Zero, One, Rat(201, 200), Rat(6, 1), Rat(-6, 1)}

\* Coefficient vectors as long as the basis, and the vectors of ones that
\* are one shorter or one longer.
CoeffVectors(b) ==
    UNION {IF m = b.number_of_functions THEN [1..m -> CoeffValues] ELSE {[i \in 1..m |-> One]} :
             m \in {l \in 0..MaxCoeffLen : Abs(l - b.number_of_functions) <= 1}}

InitPulse ==
    /\ pc = "new"
    /\ family \in Families
    /\ fargs \in FactoryArgs(family)
    /\ factory = Pending
    /\ coefficients = <<>>
    /\ pulse = Pending
    /\ defaults = [coeff |-> Pending, valid |-> FALSE]
    /\ param = <<>>
    /\ constr = <<>>
    /\ static_args = Unused
    /\ variable_args = Unused
    /\ args = Unused
    /\ fn_in = Unused
    /\ filename = Unused
    /\ raw = Unused
    /\ results = Unused
    /\ BatchUnused
    /\ MoreUnused

\* factory = factoryClass(**factoryArgs)
Construct ==
    /\ pc = "new"
    /\ factory' =
         CASE family = "PowerFactory" ->
                  PowerFactory(fargs.shift, fargs.n, fargs.has_vanishing_endpoints,
                               fargs.perform_checks)
           [] family = "FourierFactory" ->
                  FourierFactory(fargs.shift, fargs.n, fargs.has_vanishing_endpoints,
                                 fargs.perform_checks)
           [] family = "GaussianFactory" ->
                  GaussianFactory(fargs.n, fargs.has_vanishing_endpoints,
                                  fargs.perform_checks)
           [] family = "PulseFactory" ->
                  Returned(PulseFactory(
                      BasisWithEndpoints(
                          [i \in 1..Len(fargs.pairs) |-> fargs.pairs[i].f],
                          [i \in 1..Len(fargs.pairs) |-> fargs.pairs[i].F],
                          fargs.shift,
                          [i \in 1..Len(fargs.pairs) |-> Unbounded],
                          fargs.has_vanishing_endpoints),
                      fargs.perform_checks))
    /\ pc' = IF factory'.raised THEN "rejected" ELSE "built"
    /\ UNCHANGED <<moreVars, argVars, fileVars, raw, results, batchVars, family, fargs,
                   coefficients, pulse, defaults, param, constr>>

\* All functions of the basis of the factory can be evaluated.
CanEvaluate ==
    \A i \in 1..Len(factory.value.basis.functions) :
        /\ Computable(factory.value.basis.functions[i])
        /\ Computable(factory.value.basis.integrals[i])

\* coeff = factory.basis.default_coefficients, then
\* factory.basis.coefficient_are_valid(coeff)
DefaultCoefficients ==
    /\ pc = "built"
    /\ CanEvaluate
    /\ LET coeff == default_coefficients(factory.value.basis)
       IN defaults' = [coeff |-> coeff,
                       valid |-> IF coeff.raised THEN FALSE
                                 ELSE coefficient_are_valid(factory.value.basis,
                                                            coeff.value)]
    /\ pc' = "defaults"
    /\ UNCHANGED <<moreVars, argVars, fileVars, raw, results, batchVars, family, fargs,
                   factory, coefficients, pulse, param, constr>>

\* pulse = factory.sample(coefficients)
Sample ==
    /\ pc = "defaults"
    /\ \E cs \in CoeffVectors(factory.value.basis) :
          /\ coefficients' = cs
          /\ pulse' = sample(factory.value, cs)
    /\ pc' = "sampled"
    /\ UNCHANGED <<moreVars, argVars, fileVars, raw, results, batchVars, family, fargs,
                   factory, defaults, param, constr>>

\* parametrization = factory._get_parametrization(coefficients), called
\* at 0 and at 1.
GetParametrization ==
    /\ pc = "sampled"
    /\ param' = <<parametrization(factory.value.basis, coefficients, Zero),
                  parametrization(factory.value.basis, coefficients, One)>>
    /\ pc' = "parametrized"
    /\ UNCHANGED <<moreVars, argVars, fileVars, raw, results, batchVars, family, fargs,
                   factory, coefficients, pulse, defaults, constr>>

\* factory.basis.constraints, each constraint["fun"] called with the
\* coefficients.
Constraints ==
    /\ pc = "parametrized"
    /\ LET b == factory.value.basis
           cons == constraints(b)
       IN constr' = [i \in 1..Len(cons) |->
                       [con |-> cons[i], residual |-> Residual(b, cons[i], coefficients)]]
    /\ pc' = "done"
    /\ UNCHANGED <<moreVars, argVars, fileVars, raw, results, batchVars, family, fargs,
                   factory, coefficients, pulse, defaults, param>>

NextPulse ==
    \/ Construct
    \/ DefaultCoefficients
    \/ Sample
    \/ GetParametrization
    \/ Constraints

SpecPulse == InitPulse /\ [][NextPulse]_vars

-----------------------------------------------------------------------------
(* Claims about the basis and the factories *)

\* The basis of the factory that was constructed.
TheBasis == factory.value.basis

\* The definite integral of basis function i on [0, 1].
AreaOf(i) ==
    RSub(Call(TheBasis.integrals[i], RSub(One, TheBasis.shift)),
         Call(TheBasis.integrals[i], RSub(Zero, TheBasis.shift)))

\* sum_i coeff_i * areas_i, over the indices both vectors have.
TotalArea(cs) ==
    RSum([i \in 1..Min(Len(cs), Len(TheBasis.integrals)) |-> RMul(cs[i], AreaOf(i))])

\* The vector has the wrong length, or its area is further than tol from 1.
FailsAreaCheck(cs, tol) ==
    \/ Len(cs) # TheBasis.number_of_functions
    \/ RGt(RAbs(RSub(TotalArea(cs), One)), tol)

\* sample has just been called.
Sampled == pc = "sampled"

C15_NoChecksNoError ==
    (/\ Sampled
     /\ ~factory.value.perform_checks
     /\ Len(coefficients) = TheBasis.number_of_functions
     /\ FailsAreaCheck(coefficients, abs_error)) =>
        /\ ~pulse.raised
        /\ pulse.value.coefficients = coefficients

\* The basis functions whose area does not vanish.
NonVanishing == {i \in 1..Len(TheBasis.integrals) : RGt(RAbs(AreaOf(i)), VanishingArea)}

C17_ParametrizationEndpoints ==
    pc = "parametrized" =>
        /\ param[1] = Zero
        /\ param[2] = TotalArea(coefficients)
        /\ ~FailsAreaCheck(coefficients, AreaTolerance) => param[2] = One
        /\ ~FailsAreaCheck(coefficients, abs_error) =>
               ~RGt(RAbs(RSub(param[2], One)), abs_error)

\* A parametrization of a shifted basis whose antiderivatives do not vanish
\* at 0 - shift, for coefficients of area 1.
C17_Witness ==
    /\ pc = "parametrized"
    /\ TheBasis.shift # Zero
    /\ \E i \in 1..Len(TheBasis.integrals) :
          /\ i <= Len(coefficients)
          /\ coefficients[i] # Zero
          /\ Call(TheBasis.integrals[i], RSub(Zero, TheBasis.shift)) # Zero
    /\ param[2] = One

\* The waveform of the coefficients at x: sum_i coeff_i * f_i(x - shift).
WaveformAt(cs, x) ==
    RSum([i \in 1..Min(Len(cs), Len(TheBasis.functions)) |->
            RMul(cs[i], Call(TheBasis.functions[i], RSub(x, TheBasis.shift)))])

ExpectedFunctions ==
    CASE family = "PowerFactory"    -> fargs.n + 1
      [] family = "FourierFactory"  -> 2 * (fargs.n + 1)
      [] family = "GaussianFactory" -> fargs.n

\* C19: for every factory family and every n >= 0 its constructor accepts,
\* functions, integrals and bounds have number_of_functions entries: n+1
\* for PowerFactory, 2(n+1) for FourierFactory, n for GaussianFactory.
C19_BasisLengths ==
    (pc = "built" /\ family # "PulseFactory") =>
        /\ Len(TheBasis.functions) = TheBasis.number_of_functions
        /\ Len(TheBasis.integrals) = TheBasis.number_of_functions
        /\ Len(TheBasis.bounds) = TheBasis.number_of_functions
        /\ TheBasis.number_of_functions = ExpectedFunctions

\* The configuration asks for vanishing endpoints with fewer than three
\* basis functions.
TooFewFunctions ==
    /\ fargs.has_vanishing_endpoints
    /\ \/ family = "PowerFactory" /\ fargs.n < 2
       \/ family = "GaussianFactory" /\ fargs.n < 3
       \/ family = "FourierFactory" /\ fargs.n < 1

\* C20: has_vanishing_endpoints=True with fewer than three basis functions
\* is rejected when the factory is constructed; no factory is produced.
C20_TooFewFunctionsRejected ==
    (pc # "new" /\ TooFewFunctions) => factory.raised /\ pc = "rejected"

-----------------------------------------------------------------------------
(* The loss: integrands, weights, Loss *)

\* integrand_lookup.keys(), in the order of the dict.
integrands ==
    << "sin(theta/a)**2", "sin(theta/(2*a))**4",
       "sin(theta/a)*sin(theta/(2*a))**2", "sin(theta/(2*a))**2",
       "cos(theta/a)**2", "sin(theta/a)*cos(theta/a)", "sin(theta/a)",
       "cos(theta/(2*a))**2" >>

\* A dict from integrands to weights, as the sequence of its items.
Item(integrand, weight) == [integrand |-> integrand, weight |-> weight]

equal_weight_lookup == [i \in 1..Len(integrands) |-> Item(integrands[i], One)]

zero_weight_lookup == [i \in 1..Len(integrands) |-> Item(integrands[i], Zero)]

deterministic_weight_lookup ==
    << Item("sin(theta/a)**2", One), Item("sin(theta/a)", One),
       Item("cos(theta/(2*a))**2", One) >>

variance_weight_lookup ==
    << Item("sin(theta/a)**2", One), Item("sin(theta/(2*a))**4", One),
       Item("cos(theta/a)**2", One) >>

covariance_weight_lookup ==
    << Item("sin(theta/a)*sin(theta/(2*a))**2", One),
       Item("sin(theta/(2*a))**2", One),
       Item("sin(theta/a)*cos(theta/a)", One), Item("sin(theta/a)", One) >>

variance_plus_deterministic_weight_lookup ==
    << Item("sin(theta/a)**2", Rat(2, 1)), Item("sin(theta/a)", One),
       Item("cos(theta/(2*a))**2", One), Item("sin(theta/(2*a))**4", One),
       Item("cos(theta/a)**2", One) >>

lookup ==
    [ equal |-> equal_weight_lookup,
      deterministic |-> deterministic_weight_lookup,
      variance |-> variance_weight_lookup,
      covariance |-> covariance_weight_lookup,
      variance_plus_deterministic |-> variance_plus_deterministic_weight_lookup,
      zero |-> zero_weight_lookup ]

\* The weights argument of Loss: the name of a scheme, or an array.
WeightName(name) == [t |-> "str", s |-> name, l |-> <<>>]
WeightArray(l)   == [t |-> "ndarray", s |-> "", l |-> l]

\* norm(x) for the norms the callers pass: lambda x: x, lambda x: x ** 2,
\* lambda x: 1.0 and lambda x: 0.0.
Norm(norm, x) ==
    CASE norm = "identity" -> x
      [] norm = "l2"       -> RMul(x, x)
      [] norm = "one"      -> One
      [] norm = "zero"     -> Zero

\* A float that is a numpy.float64 rather than a Python float: the norm
\* hands back what the integrator returned, or a Python literal.
NormIsNumpy(norm, tab) == tab.numpy /\ norm \in {"identity", "l2"}

\* Loss.absolute_loss(coefficients) with an integrator that returns
\* tab.values: the outcome, and the integrands integrated on the way.
absolute_loss(self, cs, tab) ==
    LET p == sample(self.factory, cs)
    IN IF p.raised THEN [out |-> p, integrated |-> <<>>]
       ELSE IF self.weights.t # "str"
       THEN [out |-> Raised("TypeError"), integrated |-> <<>>]
       ELSE IF self.weights.s \notin DOMAIN lookup
       THEN [out |-> Raised("KeyError"), integrated |-> <<>>]
       ELSE LET weight_lookup == lookup[self.weights.s]
            IN [out |-> Returned(RSum(
                    [i \in 1..Len(weight_lookup) |->
                        RMul(weight_lookup[i].weight,
                             Norm(self.norm, tab.values[weight_lookup[i].integrand]))])),
                integrated |-> [i \in 1..Len(weight_lookup) |->
                                   weight_lookup[i].integrand]]

\* x / y of two floats: ZeroDivisionError for Python floats, nan or inf
\* for numpy floats when y is 0.
NaN == [n |-> 0, d |-> 0]
Inf(sign) == [n |-> sign, d |-> 0]

TrueDiv(x, y, numpy) ==
    IF y.n # 0 THEN Returned(RDiv(x, y))
    ELSE IF ~numpy THEN Raised("ZeroDivisionError")
    ELSE IF x.n = 0 THEN Returned(NaN)
    ELSE Returned(Inf(IF x.n > 0 THEN 1 ELSE -1))

\* Loss.relative_loss(coefficients)
relative_loss(self, cs, tab) ==
    LET al == absolute_loss(self, cs, tab)
    IN [out |-> IF al.out.raised THEN al.out
                ELSE TrueDiv(al.out.value, self.default_loss,
                             NormIsNumpy(self.norm, tab)),
        integrated |-> al.integrated]

\* Loss.__init__, line 83: self.default_loss = self.__call__(default_coefficients)
Loss_with_default_loss(self, dl) ==
    [out |-> IF dl.out.raised THEN dl.out
             ELSE Returned(self @@ ("default_loss" :> dl.out.value)),
     integrated |-> dl.integrated]

\* Loss.__init__, lines 75-83: the attributes, then the default loss.
Loss_with_attributes(self, tab) ==
    Loss_with_default_loss(self, absolute_loss(self, self.default_coefficients, tab))

\* Loss.__init__, line 80: the default coefficients of the factory's basis.
Loss_with_coefficients(a, tab, fac, dc) ==
    IF dc.raised THEN [out |-> dc, integrated |-> <<>>]
    ELSE Loss_with_attributes(
             [factory |-> fac,
              weights |-> a.weights,
              has_vanishing_endpoints |-> a.has_vanishing_endpoints,
              norm |-> a.norm,
              default_coefficients |-> dc.value,
              bounds |-> fac.basis.bounds,
              constraints |-> constraints(fac.basis)], tab)

\* Loss.__init__, line 74: self.factory = factoryClass(**factoryArgs)
Loss_with_factory(a, tab, f) ==
    IF f.raised THEN [out |-> f, integrated |-> <<>>]
    ELSE Loss_with_coefficients(a, tab, f.value, default_coefficients(f.value.basis))

\* Loss.__init__(factoryClass=PowerFactory, factoryArgs, weights, theta, a,
\* has_vanishing_endpoints, norm); theta and a are only handed on to the
\* integrator.
Loss(a, tab) ==
    Loss_with_factory(a, tab,
        PowerFactory(a.shift, a.n, a.has_vanishing_endpoints, a.perform_checks))

-----------------------------------------------------------------------------
(* Constructing a loss and evaluating it *)

\* The names of weighting schemes passed to Loss.
SchemeNames ==
    {"equal", "deterministic", "variance", "covariance",
     "variance_plus_deterministic", "zero"}

\* The arrays of eight weights passed to Loss: ones, halves, and 3.14
\* followed by zeros.
WeightArrays ==
    { [i \in 1..8 |-> One], [i \in 1..8 |-> Rat(1, 2)],
      [i \in 1..8 |-> IF i = 1 THEN Rat(157, 50) ELSE Zero] }

Norms == {"identity", "l2", "one", "zero"}

\* What the integrator returns: per integrand 1/2 or -1, as numpy.float64
\* or as float.
IntegralTables ==
    { [values |-> [g \in {integrands[i] : i \in 1..Len(integrands)} |->
                      IF g \in odd THEN Rat(-1, 1) ELSE Rat(1, 2)],
       numpy |-> np] :
      odd \in { {}, {integrands[i] : i \in {1, 3, 5, 7}} }, np \in BOOLEAN }

\* The coefficients a loss is called with: zeros and ones, and sixes.
LossCoeffVectors(b) ==
    [1..b.number_of_functions -> {Zero, One}]
        \cup {[i \in 1..b.number_of_functions |-> Rat(6, 1)]}

InitLoss ==
    /\ pc = "new"
    /\ largs \in [n : 0..MaxLossN, shift : {Zero, Rat(1, 2)},
                  has_vanishing_endpoints : BOOLEAN, perform_checks : BOOLEAN,
                  weights : {WeightName(w) : w \in SchemeNames}
                            \cup {WeightArray(w) : w \in WeightArrays},
                  norm : Norms]
    /\ integral = <<>>
    /\ lossObj = Pending
    /\ integrations = <<>>
    /\ loss_value = Pending
    /\ relative = Pending
    /\ LegacyUnused
    /\ CoeffUnused
    /\ OptUnused
    /\ SeedUnused
    /\ TableUnused
    /\ coefficients = <<>>
    /\ family = Unused
    /\ fargs = Unused
    /\ factory = Unused
    /\ pulse = Unused
    /\ defaults = Unused
    /\ param = Unused
    /\ constr = Unused
    /\ static_args = Unused
    /\ variable_args = Unused
    /\ args = Unused
    /\ fn_in = Unused
    /\ filename = Unused
    /\ raw = Unused
    /\ results = Unused
    /\ BatchUnused

\* loss = Loss(factoryClass=PowerFactory, factoryArgs=.., weights=..,
\* norm=..)
NewLoss ==
    /\ pc = "new"
    /\ \E tab \in IntegralTables :
          LET r == Loss(largs, tab)
          IN /\ integral' = tab
             /\ lossObj' = r.out
             /\ integrations' = r.integrated
             /\ pc' = IF r.out.raised THEN "failed" ELSE "ready"
    /\ UNCHANGED <<legacyVars, coeffVars, optVars, seedVars, tableVars, largs, loss_value, relative, coefficients>>
    /\ UNCHANGED <<argVars, fileVars, raw, results, batchVars, family, fargs,
                   factory, pulse, defaults, param, constr>>

\* loss_value = loss(coeff)
CallLoss ==
    /\ pc = "ready"
    /\ \E cs \in LossCoeffVectors(lossObj.value.factory.basis),
          tab \in {t \in IntegralTables : t.numpy = integral.numpy} :
          LET r == absolute_loss(lossObj.value, cs, tab)
          IN /\ coefficients' = cs
             /\ integral' = tab
             /\ loss_value' = r.out
             /\ integrations' = r.integrated
    /\ pc' = "called"
    /\ UNCHANGED <<legacyVars, coeffVars, optVars, seedVars, tableVars, largs, lossObj, relative>>
    /\ UNCHANGED <<argVars, fileVars, raw, results, batchVars, family, fargs,
                   factory, pulse, defaults, param, constr>>

\* loss.relative_loss(coeff), for the same coefficients
RelativeLoss ==
    /\ pc = "called"
    /\ LET r == relative_loss(lossObj.value, coefficients, integral)
       IN /\ relative' = r.out
          /\ integrations' = r.integrated
    /\ pc' = "done"
    /\ UNCHANGED <<legacyVars, coeffVars, optVars, seedVars, tableVars, largs, integral, lossObj,
                   loss_value, coefficients>>
    /\ UNCHANGED <<argVars, fileVars, raw, results, batchVars, family, fargs,
                   factory, pulse, defaults, param, constr>>

NextLoss ==
    \/ NewLoss
    \/ CallLoss
    \/ RelativeLoss

SpecLoss == InitLoss /\ [][NextLoss]_vars

-----------------------------------------------------------------------------
(* Claims about the loss *)

\* The weight of an integrand in a named scheme: its entry, 0 when the
\* scheme leaves it out.
SchemeWeight(name, g) ==
    LET wl == lookup[name]
        at == {i \in 1..Len(wl) : wl[i].integrand = g}
    IN IF at = {} THEN Zero ELSE wl[CHOOSE i \in at : TRUE].weight

\* The sum over the eight integrands of weight * norm(integral).
WeightedSum(w) ==
    RSum([i \in 1..Len(integrands) |->
             RMul(w[i], Norm(largs.norm, integral.values[integrands[i]]))])

Evaluated == pc \in {"called", "done"}

\* C21: with a named scheme, loss(coefficients) is the sum over the eight
\* integrands of weight * norm(integral) for any coefficients; with the
\* norm that is constantly 1 it is 8 under 'equal' and 0 under 'zero'.
C21_NamedSchemeTotalWeight ==
    (Evaluated /\ largs.weights.t = "str") =>
        /\ loss_value = Returned(WeightedSum(
               [i \in 1..Len(integrands) |->
                   SchemeWeight(largs.weights.s, integrands[i])]))
        /\ (largs.norm = "one" /\ largs.weights.s = "equal")
               => loss_value = Returned(Rat(8, 1))
        /\ (largs.norm = "one" /\ largs.weights.s = "zero")
               => loss_value = Returned(Zero)

\* The constructor arguments pass the assertion of the factory.
FactoryArgsAccepted == ~(largs.has_vanishing_endpoints /\ largs.n < MinDegree)

\* C22: a loss can be constructed with an array of eight weights, and with
\* the norm that is constantly 1 its value at valid coefficients is the sum
\* of the entries of the array.
C22_WeightArrayAccepted ==
    (pc # "new" /\ largs.weights.t = "ndarray" /\ FactoryArgsAccepted) =>
        /\ pc # "failed"
        /\ (Evaluated /\ largs.norm = "one"
              /\ coefficient_are_valid_within(lossObj.value.factory.basis,
                                              coefficients, abs_error))
               => loss_value = Returned(RSum(largs.weights.l))

\* C23: relative_loss is absolute_loss / default_loss when the default loss
\* is not zero, and is a finite number, not an error, when it is zero.
C23_RelativeLossGuarded ==
    (pc = "done" /\ ~loss_value.raised) =>
        IF lossObj.value.default_loss = Zero
        THEN ~relative.raised /\ relative.value.d # 0
        ELSE relative = Returned(RDiv(loss_value.value, lossObj.value.default_loss))

\* How often g occurs in q.
Count(g, q) == Cardinality({i \in 1..Len(q) : q[i] = g})

\* C30: one evaluation of the loss integrates each integrand of nonzero
\* weight exactly once and no integrand of weight zero.
C30_IntegratesNonzeroWeightsOnly ==
    (pc = "called" /\ ~loss_value.raised) =>
        \A i \in 1..Len(integrands) :
            Count(integrands[i], integrations) =
                IF SchemeWeight(largs.weights.s, integrands[i]) # Zero THEN 1 ELSE 0

-----------------------------------------------------------------------------
(* PowerPulse and ReluPowerPulse *)

\* A Python value handed in as coefficients: its type and, for a list, an
\* array or a tuple, its items.
Coeffs(t, l) == [t |-> t, l |-> l]

\* A Python value handed in as shift: its type and its number.
Shift(t, v) == [t |-> t, v |-> v]

\* The smallest total integral and the smallest sum of absolute values
\* that the input validations accept: 1e-9.
MinIntegral == Rat(1, 1000000000)

\* PowerPulse._compute_integral(coefficients, shift)
\*   sum(a_i * ((1.0 - shift)**(i+1) - (0.0 - shift)**(i+1))/(i+1))
compute_integral(cs, shift) ==
    RSum([i \in 1..Len(cs) |->
             RDiv(RMul(cs[i], RSub(RPow(RSub(One, shift), i),
                                   RPow(RSub(Zero, shift), i))),
                  Rat(i, 1))])

\* PowerPulse._input_validation(coefficients, shift)
PowerPulse_input_validation(coeffs, shift) ==
    IF ~(coeffs.t \in {"ndarray", "list"}) THEN Raised("AssertionError")
    ELSE IF shift.t # "float" THEN Raised("AssertionError")
    ELSE IF ~RGt(RAbs(compute_integral(coeffs.l, shift.v)), MinIntegral)
    THEN Raised("AssertionError")
    ELSE Returned(<<>>)

\* PowerPulse.__init__(coefficients, shift): the validation, then waveform
\* and parametrization, both divided by the total integral.
PowerPulse(coeffs, shift) ==
    LET v == PowerPulse_input_validation(coeffs, shift)
    IN IF v.raised THEN v
       ELSE Returned([coefficients |-> coeffs.l, shift |-> shift.v,
                      total_integral |-> compute_integral(coeffs.l, shift.v)])

\* sum(a_i * (x-shift)**i)
raw_pulse(cs, shift, x) ==
    RSum([i \in 1..Len(cs) |-> RMul(cs[i], RPow(RSub(x, shift), i - 1))])

\* scipy.integrate.quad(non_negative_pulse, 0, 1) for a raw pulse of
\* degree at most 1: the area of max(0.0, raw_pulse) between the values
\* v0 at 0 and v1 at 1 of a straight line.
RectifiedArea(cs, shift) ==
    LET v0 == raw_pulse(cs, shift, Zero)
        v1 == raw_pulse(cs, shift, One)
        half == Rat(1, 2)
    IN IF v0.n >= 0 /\ v1.n >= 0 THEN RMul(half, RAdd(v0, v1))
       ELSE IF v0.n <= 0 /\ v1.n <= 0 THEN Zero
       ELSE LET top == IF v0.n > 0 THEN v0 ELSE v1
            IN RDiv(RMul(half, RMul(top, top)), RAbs(RSub(v1, v0)))

\* coefficients[0] <= 0 for a value of any type
FirstCoefficient(coeffs) ==
    IF coeffs.t = "NoneType" THEN Raised("TypeError")
    ELSE IF Len(coeffs.l) = 0 THEN Raised("IndexError")
    ELSE Returned(coeffs.l[1])

\* ReluPowerPulse._input_validation(coefficients, shift): the warning on
\* coefficients[0], then the assertions.
ReluPowerPulse_input_validation(coeffs, shift) ==
    IF FirstCoefficient(coeffs).raised THEN FirstCoefficient(coeffs)
    ELSE IF ~(coeffs.t \in {"ndarray", "list"}) THEN Raised("AssertionError")
    ELSE IF shift.t # "float" THEN Raised("AssertionError")
    ELSE IF ~RGt(RSum([i \in 1..Len(coeffs.l) |-> RAbs(coeffs.l[i])]),
                 MinIntegral)
    THEN Raised("AssertionError")
    ELSE Returned(<<>>)

\* ReluPowerPulse.__init__(coefficients, shift): the validation, then
\* _construct_pulse_and_parametrization with its assertion on the
\* integral of the rectified pulse.
ReluPowerPulse(coeffs, shift) ==
    LET v == ReluPowerPulse_input_validation(coeffs, shift)
    IN IF v.raised THEN v
       ELSE IF ~(RectifiedArea(coeffs.l, shift.v).n > 0)
       THEN Raised("AssertionError")
       ELSE Returned([coefficients |-> coeffs.l, shift |-> shift.v,
                      total_integral |-> RectifiedArea(coeffs.l, shift.v)])

\* The values passed as coefficients: None, and lists, arrays and tuples
\* of at most two of -1.0, 0.0 and 1.0 (a raw pulse of degree at most 1).
CoefficientInputs ==
    {Coeffs("NoneType", <<>>)} \cup
    {Coeffs(t, l) : t \in {"list", "ndarray", "tuple"},
                    l \in UNION {[1..m -> {Rat(-1, 1), Zero, One}] : m \in 0..2}}

\* The values passed as shift: 0.0, 0.5, the int 0 and None.
ShiftInputs ==
    {Shift("float", Zero), Shift("float", Rat(1, 2)), Shift("int", Zero),
     Shift("NoneType", Zero)}

InitLegacy ==
    /\ pc = "new"
    /\ pulse_class \in {"PowerPulse", "ReluPowerPulse"}
    /\ pulse_args \in [coefficients : CoefficientInputs, shift : ShiftInputs]
    /\ power_pulse = Pending
    /\ LossUnused
    /\ CoeffUnused
    /\ OptUnused
    /\ SeedUnused
    /\ TableUnused
    /\ PulseUnused
    /\ static_args = Unused
    /\ variable_args = Unused
    /\ args = Unused
    /\ fn_in = Unused
    /\ filename = Unused
    /\ raw = Unused
    /\ results = Unused
    /\ BatchUnused

\* PowerPulse(coefficients=.., shift=..) or ReluPowerPulse(..)
NewPowerPulse ==
    /\ pc = "new"
    /\ power_pulse' =
          IF pulse_class = "PowerPulse"
          THEN PowerPulse(pulse_args.coefficients, pulse_args.shift)
          ELSE ReluPowerPulse(pulse_args.coefficients, pulse_args.shift)
    /\ pc' = IF power_pulse'.raised THEN "rejected" ELSE "built"
    /\ UNCHANGED <<pulse_class, pulse_args, lossVars, coeffVars, optVars, seedVars, tableVars, pulseVars,
                   argVars, fileVars,
                   raw, results, batchVars>>

NextLegacy == NewPowerPulse

SpecLegacy == InitLegacy /\ [][NextLegacy]_vars

\* The input is invalid: coefficients that are neither a list nor an array,
\* a shift that is not a float, or a pulse of total area zero.
InvalidPulseInput ==
    \/ pulse_args.coefficients.t \notin {"list", "ndarray"}
    \/ pulse_args.shift.t # "float"
    \/ IF pulse_class = "PowerPulse"
       THEN compute_integral(pulse_args.coefficients.l, pulse_args.shift.v) = Zero
       ELSE RectifiedArea(pulse_args.coefficients.l, pulse_args.shift.v) = Zero

\* C26: constructing a PowerPulse or ReluPowerPulse with invalid input
\* raises an AssertionError, and no pulse is constructed.
C26_InvalidInputAssertionError ==
    (pc # "new" /\ InvalidPulseInput) => power_pulse = Raised("AssertionError")

-----------------------------------------------------------------------------
(* Basis: random_coefficients and special_coefficients *)

\* random_coefficients that hands back the random vector as it was drawn.
random_coefficients_Raw(b, r) ==
    Returned(r)

\* random_coefficients for the random vector r: r divided by its area;
\* no outcome yet, and another draw, when the area is approximately zero.
random_coefficients(b, r) ==
    LET area == area_of_waveform(r, areas(b))
    IN IF ~RGt(RAbs(area), AreaTolerance) THEN Pending
       ELSE Returned([i \in 1..Len(r) |-> RDiv(r[i], area)])

\* The largest residual with which special_coefficients accepts the
\* solution of the linear system: 1e-6.
MaxResidual == Rat(1, 1000000)

\* special_coefficients when the least-squares solver returns c for the
\* system waveform(0) = 0, waveform(1) = 0, area = 1: c, or an error when
\* a residual exceeds 1e-6.
special_coefficients(b, c) ==
    IF \/ RGt(RAbs(waveform(b, c, Zero)), MaxResidual)
       \/ RGt(RAbs(waveform(b, c, One)), MaxResidual)
       \/ RGt(RAbs(RSub(area_of_waveform(c, areas(b)), One)), MaxResidual)
    THEN Raised("Exception")
    ELSE Returned(c)

\* The constructor calls: PowerFactory and FourierFactory with n and
\* shift, and PulseFactory with a basis given by values.
CoeffFactoryArgs(fam) ==
    CASE fam = "PowerFactory" ->
             [n : 0..MaxRandN, shift : {Zero, Rat(1, 2), One},
              has_vanishing_endpoints : {FALSE}, perform_checks : {TRUE},
              pairs : {<<>>}]
      [] fam = "FourierFactory" ->
             [n : {0, 1}, shift : {Zero, One},
              has_vanishing_endpoints : {FALSE}, perform_checks : {TRUE},
              pairs : {<<>>}]
      [] fam = "PulseFactory" ->
             [n : {0}, shift : {Zero},
              has_vanishing_endpoints : {FALSE}, perform_checks : {TRUE},
              pairs : UNION {[1..m -> TabPairs] : m \in 1..MaxTab}]

\* The entries of a random vector: -1, 1/2 and 2.
RandomValues == {Rat(-1, 1), Rat(1, 2), Rat(2, 1)}

\* The entries of a vector the least-squares solver returns: 0, 3/2, 6 and
\* -6.
SolverValues == {Zero, Rat(3, 2), Rat(6, 1), Rat(-6, 1)}

InitCoeff ==
    /\ pc = "new"
    /\ family \in {"PowerFactory", "FourierFactory", "PulseFactory"}
    /\ fargs \in CoeffFactoryArgs(family)
    /\ factory = Pending
    /\ coefficients = <<>>
    /\ pulse = Pending
    /\ defaults = [coeff |-> Pending, valid |-> FALSE]
    /\ param = <<>>
    /\ constr = <<>>
    /\ random = [draw |-> <<>>, coeff |-> Pending]
    /\ special = Pending
    /\ LossUnused
    /\ LegacyUnused
    /\ OptUnused
    /\ SeedUnused
    /\ TableUnused
    /\ static_args = Unused
    /\ variable_args = Unused
    /\ args = Unused
    /\ fn_in = Unused
    /\ filename = Unused
    /\ raw = Unused
    /\ results = Unused
    /\ BatchUnused

\* coeff = factory.basis.random_coefficients: one draw; the next draw
\* follows when this one is not used.
RandomCoefficients ==
    /\ pc = "built"
    /\ \E r \in [1..factory.value.basis.number_of_functions -> RandomValues] :
          random' = [draw |-> r,
                     coeff |-> random_coefficients(factory.value.basis, r)]
    /\ pc' = IF random'.coeff = Pending THEN "built" ELSE "random"
    /\ UNCHANGED <<special, lossVars, legacyVars, optVars, seedVars, tableVars, pulseVars, argVars, fileVars,
                   raw, results, batchVars>>

\* coefficients = basis.special_coefficients
SpecialCoefficients ==
    /\ pc = "random"
    /\ \E c \in [1..factory.value.basis.number_of_functions -> SolverValues] :
          special' = special_coefficients(factory.value.basis, c)
    /\ pc' = "special"
    /\ UNCHANGED <<random, lossVars, legacyVars, optVars, seedVars, tableVars, pulseVars, argVars, fileVars,
                   raw, results, batchVars>>

NextCoeff ==
    \/ Construct
    \/ RandomCoefficients
    \/ SpecialCoefficients

SpecCoeff == InitCoeff /\ [][NextCoeff]_vars

\* The area of the waveform with coefficients cs is 1 within the
\* tolerance.
AreaIsOne(cs) ==
    ~RGt(RAbs(RSub(area_of_waveform(cs, areas(factory.value.basis)), One)),
         AreaTolerance)

\* C27: the vectors that random_coefficients and special_coefficients
\* produce have area 1 within the tolerance and are accepted by
\* coefficient_are_valid; random_coefficients draws again only when the
\* area of the draw is approximately zero.
C27_ProducedCoefficientsHaveAreaOne ==
    /\ (pc \in {"random", "special"}) =>
           /\ AreaIsOne(random.coeff.value)
           /\ coefficient_are_valid(factory.value.basis, random.coeff.value)
    /\ (pc = "built" /\ random.draw # <<>>) =>
           ~RGt(RAbs(area_of_waveform(random.draw, areas(factory.value.basis))),
                AreaTolerance)
    /\ (pc = "special" /\ ~special.raised) =>
           /\ AreaIsOne(special.value)
           /\ coefficient_are_valid(factory.value.basis, special.value)

\* Random coefficients that differ from the draw, and special
\* coefficients, have been produced.
C27_Witness ==
    /\ pc = "special"
    /\ ~special.raised
    /\ random.coeff.value # random.draw

-----------------------------------------------------------------------------
(* The optimizers: pulse_opt/integrals/optimizers.py *)

\* The constraints argument: a list of constraint dicts, or one dict.
ConstraintList(l) == [t |-> "list", l |-> l]
ConstraintDict(c) == [t |-> "dict", l |-> <<c>>]

\* The loss functions that are minimized, as functions of the
\* coefficients c: c[0], -c[0], and the sum of the squares.
LossFunctions == {"c[0]", "-c[0]", "sum(c**2)"}

LossAt(fn, c) ==
    CASE fn = "c[0]"      -> c[1]
      [] fn = "-c[0]"     -> RSub(Zero, c[1])
      [] fn = "sum(c**2)" -> RSum([i \in 1..Len(c) |-> RMul(c[i], c[i])])

\* The points among which scipy.optimize.minimize looks for the minimum.
GridValues == {Rat(-1, 1), Zero, One, Rat(2, 1), Rat(4, 1)}
Grid(n) == [1..n -> GridValues]

\* a <= b
RLe(a, b) == ~RGt(a, b)

\* The value v lies within the bound (lower, upper).
Within(bound, v) ==
    /\ bound[1] = "None" \/ RLe(Rat(1, 1000), v)
    /\ bound[2] = "None"

\* scipy.optimize.minimize(fun, x0, method, constraints, bounds): a point
\* of least fun among the points that satisfy the constraints and bounds
\* that were handed in; x0 when there is no such point.
minimize(call, b) ==
    LET feasible ==
            {c \in Grid(Len(call.x0)) :
                /\ \A k \in 1..Len(call.constraints) :
                       IF call.constraints[k].type = "eq"
                       THEN Residual(b, call.constraints[k], c) = Zero
                       ELSE RLe(Zero, Residual(b, call.constraints[k], c))
                /\ \A i \in 1..Len(call.bounds) : Within(call.bounds[i], c[i])}
        best == {c \in feasible : \A o \in feasible : RLe(call.fun[c], call.fun[o])}
    IN IF feasible = {} THEN {[x |-> call.x0, success |-> FALSE]}
       ELSE {[x |-> c, success |-> TRUE] : c \in best}

\* What an optimizer did: the call of minimize it made, if any, and the
\* outcomes it can have.
Optimized(call, outs) == [call |-> call, outs |-> outs]

NoCall == [method |-> "none"]

\* optimize_with_hard_constraint(loss, start_coeff, constraints, bounds)
optimize_with_hard_constraint(fn, start_coeff, cons, bounds, b) ==
    LET call == [method |-> "trust-constr",
                 fun |-> [c \in Grid(Len(start_coeff)) |-> LossAt(fn, c)],
                 x0 |-> start_coeff,
                 constraints |-> cons.l,
                 bounds |-> <<>>]
    IN Optimized(call, {Returned(r) : r \in minimize(call, b)})

\* loss_with_penalty(coeff) = loss(coeff) + l1_penalty(coeff) + l2_penalty(coeff)
loss_with_penalty(fn, cons, lambda_l1, lambda_l2, b, c) ==
    RAdd(RAdd(LossAt(fn, c),
              RMul(lambda_l1,
                   RSum([k \in 1..Len(cons) |-> RAbs(Residual(b, cons[k], c))]))),
         RMul(lambda_l2,
              RSum([k \in 1..Len(cons) |->
                       RMul(Residual(b, cons[k], c), Residual(b, cons[k], c))])))

\* optimize_with_penalty_constraint(loss, start_coeff, constraints, bounds,
\* lambda_l1, lambda_l2): the assertion iterates over constraints, which
\* for a dict are its keys, the strings 'type' and 'fun'.
optimize_with_penalty_constraint(fn, start_coeff, cons, bounds, lambda_l1, lambda_l2, b) ==
    IF cons.t = "dict" THEN Optimized(NoCall, {Raised("TypeError")})
    ELSE IF ~(\A k \in 1..Len(cons.l) : cons.l[k].type = "eq")
    THEN Optimized(NoCall, {Raised("AssertionError")})
    ELSE LET call == [method |-> "Nelder-Mead",
                      fun |-> [c \in Grid(Len(start_coeff)) |->
                                  loss_with_penalty(fn, cons.l, lambda_l1, lambda_l2, b, c)],
                      x0 |-> start_coeff,
                      constraints |-> <<>>,
                      bounds |-> bounds]
         IN Optimized(call, {Returned(r) : r \in minimize(call, b)})

\* The constraints handed to the optimizer: basis.constraints as a list,
\* the area constraint as one dict, and a list with an inequality.
ConstraintInputs(b) ==
    { ConstraintList(constraints(b)),
      ConstraintDict([type |-> "eq", fun |-> "area_of_waveform - 1.0"]),
      ConstraintList(<< [type |-> "ineq", fun |-> "area_of_waveform - 1.0"] >>) }

\* The basis of the loss that is minimized: PowerFactory(shift=0.0, n).
OptBasis(n) == PowerFactory(Zero, n, FALSE, FALSE).value.basis

InitOpt ==
    /\ pc = "new"
    /\ \E n \in 0..MaxOptN :
          opt_args \in [optimizer : {"optimize_with_hard_constraint",
                                     "optimize_with_penalty_constraint"},
                        basis : {OptBasis(n)},
                        loss : LossFunctions,
                        start_coeff : {default_coefficients(OptBasis(n)).value},
                        constraints : ConstraintInputs(OptBasis(n)),
                        bounds : {OptBasis(n).bounds},
                        lambda_l1 : {Zero, One},
                        lambda_l2 : {One}]
    /\ minimize_call = NoCall
    /\ opt_res = Pending
    /\ LossUnused
    /\ LegacyUnused
    /\ CoeffUnused
    /\ SeedUnused
    /\ TableUnused
    /\ PulseUnused
    /\ static_args = Unused
    /\ variable_args = Unused
    /\ args = Unused
    /\ fn_in = Unused
    /\ filename = Unused
    /\ raw = Unused
    /\ results = Unused
    /\ BatchUnused

\* res = optimizer(loss=loss, start_coeff=start_coeff,
\*                 constraints=constraints, bounds=bounds)
Optimize ==
    /\ pc = "new"
    /\ LET a == opt_args
           o == IF a.optimizer = "optimize_with_hard_constraint"
                THEN optimize_with_hard_constraint(
                         a.loss, a.start_coeff, a.constraints, a.bounds, a.basis)
                ELSE optimize_with_penalty_constraint(
                         a.loss, a.start_coeff, a.constraints, a.bounds,
                         a.lambda_l1, a.lambda_l2, a.basis)
       IN /\ minimize_call' = o.call
          /\ opt_res' \in o.outs
    /\ pc' = IF opt_res'.raised THEN "raised" ELSE "optimized"
    /\ UNCHANGED <<opt_args, lossVars, legacyVars, coeffVars, seedVars, tableVars, pulseVars, argVars,
                   fileVars, raw, results, batchVars>>

NextOpt == Optimize

SpecOpt == InitOpt /\ [][NextOpt]_vars

\* C28: the point optimize_with_hard_constraint returns satisfies every
\* bound of the bounds it was given.
C28_HardConstraintKeepsBounds ==
    (pc = "optimized" /\ opt_args.optimizer = "optimize_with_hard_constraint") =>
        \A i \in 1..Len(opt_args.bounds) :
            Within(opt_args.bounds[i], opt_res.value.x[i])

\* C29: optimize_with_penalty_constraint takes a list of constraints or
\* one constraint dict; with equality constraints only, it hands to the
\* simplex minimizer loss(c) + lambda_l1 * sum |g_k(c)| + lambda_l2 * sum
\* g_k(c)**2, and a constraint of another type is rejected before any
\* minimization.
C29_PenaltyObjective ==
    (pc # "new" /\ opt_args.optimizer = "optimize_with_penalty_constraint") =>
        LET gs == opt_args.constraints.l
        IN IF \A k \in 1..Len(gs) : gs[k].type = "eq"
           THEN /\ pc = "optimized"
                /\ minimize_call.method = "Nelder-Mead"
                /\ minimize_call.fun =
                       [c \in Grid(Len(opt_args.start_coeff)) |->
                           loss_with_penalty(opt_args.loss, gs, opt_args.lambda_l1,
                                             opt_args.lambda_l2, opt_args.basis, c)]
           ELSE /\ opt_res = Raised("AssertionError")
                /\ minimize_call = NoCall

-----------------------------------------------------------------------------
(* Gate experiments: the random seed of each task *)

\* The modulus of the seed.
SeedModulus == 123456789

\* (os.getpid() * int(time.time())) % 123456789, computed on the residues
\* of the two factors.
Seed(pid, time) == ((pid % SeedModulus) * (time % SeedModulus)) % SeedModulus

\* The wall clock when the batch starts: 2024-10-08 13:44:05 UTC.
Epoch == 1728395045

\* The process ids of gate_pool workers.
Pids == {2, 3, 5}

\* cpu_count of the machine.
CpuCounts == {2, 4}

\* workers = min(int(0.5 * cpu_count), max_workers), max_workers=50
GateWorkers(cpu_count) == Min(cpu_count \div 2, 50)

\* chunksize = max(1, int(simulations / workers) + (1 if simulations %
\* workers > 0 else 0))
GateChunkSize(simulations, workers) ==
    LET c == (simulations \div workers) + (IF simulations % workers > 0 THEN 1 ELSE 0)
    IN IF c > 1 THEN c ELSE 1

\* The chunk of a task, counted from 1.
ChunkOf(t, simulations, workers) ==
    ((t - 1) \div GateChunkSize(simulations, workers)) + 1

Idle == 0

InitSeed ==
    /\ pc = "pool"
    /\ clock = Epoch
    /\ \E cpu_count \in CpuCounts, runs \in 2..MaxRuns :
          /\ gate_pool \in {w \in [1..GateWorkers(cpu_count) ->
                                 [pid : Pids, chunk : {Idle}, next : {0}]] :
                          \A i, j \in DOMAIN w : i # j => w[i].pid # w[j].pid}
          /\ seed = [t \in 1..runs |-> -1]
    /\ taken = {}
    /\ LossUnused
    /\ LegacyUnused
    /\ CoeffUnused
    /\ OptUnused
    /\ TableUnused
    /\ PulseUnused
    /\ static_args = Unused
    /\ variable_args = Unused
    /\ args = Unused
    /\ fn_in = Unused
    /\ filename = Unused
    /\ raw = Unused
    /\ results = Unused
    /\ BatchUnused

\* A worker of the gate_pool takes the next chunk of p.imap_unordered.
GateWorkerTakesChunk(w) ==
    /\ gate_pool[w].chunk = Idle
    /\ LET chunks == {ChunkOf(t, Len(seed), Len(gate_pool)) : t \in 1..Len(seed)} \ taken
       IN /\ chunks # {}
          /\ LET c == CHOOSE m \in chunks : \A o \in chunks : m <= o
             IN /\ gate_pool' = [gate_pool EXCEPT ![w].chunk = c,
                               ![w].next = CHOOSE t \in 1..Len(seed) :
                                   /\ ChunkOf(t, Len(seed), Len(gate_pool)) = c
                                   /\ \A o \in 1..Len(seed) :
                                        ChunkOf(o, Len(seed), Len(gate_pool)) = c => t <= o]
                /\ taken' = taken \cup {c}
    /\ UNCHANGED <<pc, clock, seed, lossVars, legacyVars, coeffVars, optVars,
                   tableVars, pulseVars, argVars, fileVars, raw, results, batchVars>>

\* _gate_experiment in worker w: np.random.seed(..), then the sampling.
GateExperiment(w) ==
    /\ gate_pool[w].chunk # Idle
    /\ LET t == gate_pool[w].next
       IN /\ seed' = [seed EXCEPT ![t] = Seed(gate_pool[w].pid, clock)]
          /\ gate_pool' = IF t + 1 <= Len(seed)
                        /\ ChunkOf(t + 1, Len(seed), Len(gate_pool)) = gate_pool[w].chunk
                     THEN [gate_pool EXCEPT ![w].next = t + 1]
                     ELSE [gate_pool EXCEPT ![w].chunk = Idle, ![w].next = 0]
    /\ UNCHANGED <<pc, clock, taken, lossVars, legacyVars, coeffVars, optVars,
                   tableVars, pulseVars, argVars, fileVars, raw, results, batchVars>>

\* A second passes.
Tick ==
    /\ clock < Epoch + MaxTicks
    /\ clock' = clock + 1
    /\ UNCHANGED <<pc, gate_pool, taken, seed, lossVars, legacyVars, coeffVars, optVars,
                   tableVars, pulseVars, argVars, fileVars, raw, results, batchVars>>

NextSeed ==
    \/ \E w \in DOMAIN gate_pool : GateWorkerTakesChunk(w)
    \/ \E w \in DOMAIN gate_pool : GateExperiment(w)
    \/ Tick

SpecSeed == InitSeed /\ [][NextSeed]_vars

\* C25: no two gate experiments of a batch set the same random seed.
C25_DistinctSeeds ==
    \A i, j \in DOMAIN seed :
        (i # j /\ seed[i] # -1 /\ seed[j] # -1) => seed[i] # seed[j]

-----------------------------------------------------------------------------
(* Serialization of tables and results: serialize_table, deserialize_table, *)
(* CustomEncoder                                                            *)

\* A number: n / 10^k, an int (k = 0) or a float with k decimals.
IntNumber(n) == [int |-> TRUE, n |-> n, k |-> 0]

RECURSIVE Normalized(_, _)
Normalized(n, k) ==
    IF k > 0 /\ n % 10 = 0 THEN Normalized(n \div 10, k - 1)
    ELSE [int |-> FALSE, n |-> n, k |-> k]

FloatNumber(n, k) == Normalized(n, k)

RECURSIVE Pow10(_)
Pow10(m) == IF m = 0 THEN 1 ELSE 10 * Pow10(m - 1)

\* The cells of a table: a str, a list of numbers, a numpy array.
StrCell(chars) == [t |-> "str", s |-> chars, v |-> <<>>]
ListCell(v) == [t |-> "list", s |-> <<>>, v |-> v]
ArrayCell(v) == [t |-> "ndarray", s |-> <<>>, v |-> v]

\* The digits of precision of numpy's printing (np.array2string default).
Precision == 8

\* A float rounded to the precision of the printing (round half to even).
Rounded(x) ==
    IF x.k <= Precision THEN x
    ELSE LET p == Pow10(x.k - Precision)
             a == IF x.n < 0 THEN -x.n ELSE x.n
             q == a \div p
             r == a % p
             m == IF 2 * r > p \/ (2 * r = p /\ q % 2 = 1) THEN q + 1 ELSE q
         IN Normalized(IF x.n < 0 THEN -m ELSE m, Precision)

\* The digits of f, k of them.
RECURSIVE FracStr(_, _)
FracStr(f, k) == IF k = 0 THEN <<>> ELSE FracStr(f \div 10, k - 1) \o <<Digit(f % 10)>>

\* Sign and integer digits of a number.
IntPart(x) ==
    LET a == IF x.n < 0 THEN -x.n ELSE x.n
    IN (IF x.n < 0 THEN <<"-">> ELSE <<>>) \o NatStr(a \div Pow10(x.k))

\* The decimals of a number.
FracPart(x) ==
    LET a == IF x.n < 0 THEN -x.n ELSE x.n
    IN FracStr(a % Pow10(x.k), x.k)

RECURSIVE Spaces(_)
Spaces(m) == IF m <= 0 THEN <<>> ELSE <<" ">> \o Spaces(m - 1)

RECURSIVE MaxOf(_)
MaxOf(seq) == IF Len(seq) = 1 THEN seq[1] ELSE Max(seq[1], MaxOf(Tail(seq)))

\* np.array2string(a): the elements in one common width, separated by a
\* space, floats with the decimals that the precision leaves.
array2string(a) ==
    LET isint == \A i \in DOMAIN a : a[i].int
        x == [i \in DOMAIN a |-> IF isint THEN a[i] ELSE Rounded(a[i])]
        iw == MaxOf([i \in DOMAIN a |-> Len(IntPart(x[i]))])
        fw == MaxOf([i \in DOMAIN a |-> Len(FracPart(x[i]))])
        element(i) ==
            Spaces(iw - Len(IntPart(x[i]))) \o IntPart(x[i]) \o
            (IF isint THEN <<>>
             ELSE <<".">> \o FracPart(x[i]) \o Spaces(fw - Len(FracPart(x[i]))))
    IN <<"[">> \o Join(<<" ">>, [i \in DOMAIN a |-> element(i)]) \o <<"]">>

\* repr of a number as json.dumps writes it: every digit of a float.
NumberRepr(x) ==
    IF x.int THEN IntStr(x.n)
    ELSE IntPart(x) \o <<".">> \o (IF x.k = 0 THEN <<"0">> ELSE FracPart(x))

\* The words of a text between blanks and commas.
RECURSIVE Tokens(_, _)
Tokens(chars, cur) ==
    IF chars = <<>> THEN (IF cur = <<>> THEN <<>> ELSE <<cur>>)
    ELSE IF Head(chars) \in {" ", ","}
         THEN (IF cur = <<>> THEN <<>> ELSE <<cur>>) \o Tokens(Tail(chars), <<>>)
         ELSE Tokens(Tail(chars), Append(cur, Head(chars)))

DigitValue(c) == CHOOSE d \in 0..9 : Digit(d) = c

RECURSIVE ParseNat(_)
ParseNat(chars) ==
    IF chars = <<>> THEN 0
    ELSE ParseNat(SubSeq(chars, 1, Len(chars) - 1)) * 10 + DigitValue(chars[Len(chars)])

\* int(token) or float(token)
ParseNumber(token) ==
    LET neg == Head(token) = "-"
        digits == IF neg THEN Tail(token) ELSE token
        sign == IF neg THEN -1 ELSE 1
    IN IF \E i \in DOMAIN digits : digits[i] = "."
       THEN LET dot == CHOOSE i \in DOMAIN digits : digits[i] = "."
                ip == SubSeq(digits, 1, dot - 1)
                fp == SubSeq(digits, dot + 1, Len(digits))
            IN FloatNumber(sign * (ParseNat(ip) * Pow10(Len(fp)) + ParseNat(fp)), Len(fp))
       ELSE IntNumber(sign * ParseNat(digits))

\* The numbers of a text '[.. .. ..]'.
ParseNumbers(chars) ==
    LET tokens == Tokens(SubSeq(chars, 2, Len(chars) - 1), <<>>)
    IN [i \in DOMAIN tokens |-> ParseNumber(tokens[i])]

\* A str that holds a printed array.
IsArrayString(cell) ==
    /\ cell.t = "str"
    /\ Len(cell.s) >= 2
    /\ cell.s[1] = "["
    /\ cell.s[Len(cell.s)] = "]"

\* serialize_table(df): an array becomes np.array2string of it, a str and
\* a list stay as they are.
serialize_table(df) ==
    [i \in DOMAIN df |->
        IF df[i].t = "ndarray" THEN StrCell(array2string(df[i].v)) ELSE df[i]]

\* deserialize_table(df): a str that holds a printed array becomes the
\* array, any other str and a list stay as they are.
deserialize_table(df) ==
    [i \in DOMAIN df |->
        IF IsArrayString(df[i]) THEN ArrayCell(ParseNumbers(df[i].s)) ELSE df[i]]

\* CustomEncoder.default(obj)
CustomEncoder_default(obj) ==
    IF obj.t = "ndarray" THEN Returned(ListCell(obj.v))
    ELSE Raised("TypeError")

\* json.dumps(obj, cls=CustomEncoder)
json_dumps(obj) ==
    LET o == IF obj.t \in {"str", "list"} THEN Returned(obj)
             ELSE CustomEncoder_default(obj)
    IN IF o.raised THEN o
       ELSE IF o.value.t = "str" THEN Returned(<<"\"">> \o o.value.s \o <<"\"">>)
       ELSE Returned(<<"[">> \o
                     Join(<<",", " ">>,
                          [i \in DOMAIN o.value.v |-> NumberRepr(o.value.v[i])]) \o <<"]">>)

\* json.loads(text)
json_loads(text) ==
    IF Head(text) = "\"" THEN StrCell(SubSeq(text, 2, Len(text) - 1))
    ELSE ListCell(ParseNumbers(text))

S_value == <<"v", "a", "l", "u", "e">>

\* The numbers of the cells.
IntValues == {IntNumber(1), IntNumber(12), IntNumber(-3)}

FloatValues == {FloatNumber(1, 0), FloatNumber(5, 1), FloatNumber(-25, 1), FloatNumber(123456789, 9)}

SeqsOf(S) == UNION {[1..m -> S] : m \in 1..MaxArrayLen}

\* The cells of a table: strings, lists of numbers, numeric arrays.
Cells ==
    {StrCell(S_value), StrCell(<<"[", "1", ".", "]">>)}
    \cup {ListCell(v) : v \in SeqsOf(IntValues) \cup SeqsOf(FloatValues)}
    \cup {ArrayCell(v) : v \in SeqsOf(IntValues) \cup SeqsOf(FloatValues)}

InitTable ==
    /\ pc = "table"
    /\ data_frame \in UNION {[1..m -> Cells] : m \in 1..MaxCells}
    /\ serialized = Pending
    /\ deserialized = Pending
    /\ json_text = Pending
    /\ decoded = Pending
    /\ LossUnused
    /\ LegacyUnused
    /\ CoeffUnused
    /\ OptUnused
    /\ SeedUnused
    /\ PulseUnused
    /\ static_args = Unused
    /\ variable_args = Unused
    /\ args = Unused
    /\ fn_in = Unused
    /\ filename = Unused
    /\ raw = Unused
    /\ results = Unused
    /\ BatchUnused

SerializeTable ==
    /\ serialized = Pending
    /\ serialized' = serialize_table(data_frame)
    /\ UNCHANGED <<pc, data_frame, deserialized, json_text, decoded, lossVars, legacyVars,
                   coeffVars, optVars, seedVars, pulseVars, argVars, fileVars, raw,
                   results, batchVars>>

DeserializeTable ==
    /\ serialized # Pending
    /\ deserialized = Pending
    /\ deserialized' = deserialize_table(serialized)
    /\ UNCHANGED <<pc, data_frame, serialized, json_text, decoded, lossVars, legacyVars,
                   coeffVars, optVars, seedVars, pulseVars, argVars, fileVars, raw,
                   results, batchVars>>

\* json.dump(.., cls=CustomEncoder) of the cells
DumpResult ==
    /\ json_text = Pending
    /\ json_text' = [i \in DOMAIN data_frame |-> json_dumps(data_frame[i])]
    /\ UNCHANGED <<pc, data_frame, serialized, deserialized, decoded, lossVars, legacyVars,
                   coeffVars, optVars, seedVars, pulseVars, argVars, fileVars, raw,
                   results, batchVars>>

\* json.load of what was written
LoadResult ==
    /\ json_text # Pending
    /\ decoded = Pending
    /\ \A i \in DOMAIN json_text : ~json_text[i].raised
    /\ decoded' = [i \in DOMAIN json_text |-> json_loads(json_text[i].value)]
    /\ UNCHANGED <<pc, data_frame, serialized, deserialized, json_text, lossVars, legacyVars,
                   coeffVars, optVars, seedVars, pulseVars, argVars, fileVars, raw,
                   results, batchVars>>

NextTable ==
    \/ SerializeTable
    \/ DeserializeTable
    \/ DumpResult
    \/ LoadResult

SpecTable == InitTable /\ [][NextTable]_vars

\* C24: a table of strings, lists of numbers and numeric arrays is the same
\* after serialize_table and deserialize_table, and an array written with
\* CustomEncoder is read back as the same sequence of numbers.
C24_LosslessRoundTrip ==
    /\ deserialized # Pending => deserialized = data_frame
    /\ decoded # Pending =>
          \A i \in DOMAIN data_frame :
              data_frame[i].t = "ndarray" => decoded[i].v = data_frame[i].v

=============================================================================
